---- MODULE Spec2Model ----
(***************************************************************************)
(* Model of the clip-generation pipeline of Youtube-Clip-Genie:            *)
(*   - services/geminiService.ts  (variant "service")                      *)
(*   - the second copy of the same service, with numeric timestamps and a  *)
(*     two-attempt loop (variant "lambda", src/lambda/index.mjs 150-402)   *)
(* One invocation of generateClipsFromTranscript is a state machine over   *)
(* the retry loop; the extractor, the field normalisation, the time        *)
(* conversions and the transcript alignment are operators.                 *)
(*                                                                         *)
(* Text is modelled as a sequence of one-character strings.  A JavaScript  *)
(* value is a record [t, s, n, a]: t is its type tag, s its characters     *)
(* (strings), n its number, a its elements (arrays of strings).            *)
(***************************************************************************)
EXTENDS Integers, Sequences, FiniteSets, TLC

\* ------------------------------------------------------------------ bounds
\* longest array of arbitrary records a backend response holds
MaxRecords == 2
\* longest array of identical well-formed records a backend response holds
MaxRepeat == 6
\* largest minutes field and largest seconds field of a time string
MaxUnit == 60
\* largest hours field of a time string
MaxHours == 2
\* longest array of new clips handed to saveClips
MaxNew == 2
\* number of clips a user's localStorage item has room for
MaxStored == 2

\* ------------------------------------------------------- program constants
MAX_ATTEMPTS_SERVICE == 3
MAX_ATTEMPTS_LAMBDA == 2
BASE_DELAY_SERVICE == 2000
DELAY_LAMBDA == 1500
minDurationSeconds == 60
maxDurationSeconds == 600
CLIP_LIMIT_FREE == 5
CLIP_LIMIT_CASUAL == 20
CLIP_LIMIT_MASTERMIND == 50

Variants == {"service", "lambda"}
Plans == {"free", "casual", "mastermind"}

\* ------------------------------------------------------ JavaScript values
Undef == [t |-> "undef", s |-> <<>>, n |-> 0, a |-> <<>>]
Str(cs) == [t |-> "str", s |-> cs, n |-> 0, a |-> <<>>]
Num(k) == [t |-> "num", s |-> <<>>, n |-> k, a |-> <<>>]
Arr(xs) == [t |-> "arr", s |-> <<>>, n |-> 0, a |-> xs]

\* JavaScript truthiness: '' , 0, undefined, null and false are falsy, every
\* array is truthy
Truthy(v) ==
    \/ v.t = "str" /\ v.s # <<>>
    \/ v.t = "num" /\ v.n # 0
    \/ v.t = "arr"
    \/ v.t = "true"

\* a || b
OrElse(a, b) == IF Truthy(a) THEN a ELSE b

\* NaN: the one number that is no integer of the model
NaN == 0 - 1
isNaN(x) == x = NaN

Digits == <<"0", "1", "2", "3", "4", "5", "6", "7", "8", "9">>
IsDigit(c) == \E i \in 1..10 : Digits[i] = c
DigitVal(c) == (CHOOSE i \in 1..10 : Digits[i] = c) - 1

\* Number(part) for a part over the alphabet digits and letters:
\* '' is 0, a run of digits is its decimal value, anything else NaN
RECURSIVE DecimalValue(_)
DecimalValue(cs) ==
    IF cs = <<>> THEN 0
    ELSE 10 * DecimalValue(SubSeq(cs, 1, Len(cs) - 1)) + DigitVal(cs[Len(cs)])

NumberOf(cs) ==
    IF \A i \in 1..Len(cs) : IsDigit(cs[i]) THEN DecimalValue(cs) ELSE NaN

\* time.split(':')
RECURSIVE SplitColon(_)
SplitColon(cs) ==
    IF \A i \in 1..Len(cs) : cs[i] # ":" THEN <<cs>>
    ELSE LET k == CHOOSE i \in 1..Len(cs) :
                      cs[i] = ":" /\ \A j \in 1..(i - 1) : cs[j] # ":"
         IN  <<SubSeq(cs, 1, k - 1)>> \o SplitColon(SubSeq(cs, k + 1, Len(cs)))

\* timeToSeconds throws a TypeError on a non-zero number: time.includes is
\* not a function (a falsy value returns NaN before the call)
timeToSecondsThrows(v) == v.t = "num" /\ v.n # 0

timeToSeconds(v) ==
    IF ~Truthy(v) THEN NaN
    ELSE IF v.t # "str" THEN NaN
    ELSE IF \A i \in 1..Len(v.s) : v.s[i] # ":" THEN NaN
    ELSE LET parts == [i \in 1..Len(SplitColon(v.s)) |-> NumberOf(SplitColon(v.s)[i])]
         IN  IF \E i \in 1..Len(parts) : isNaN(parts[i]) THEN NaN
             ELSE IF Len(parts) = 2 THEN (parts[1] * 60) + parts[2]
             ELSE IF Len(parts) = 3
                  THEN (parts[1] * 3600) + (parts[2] * 60) + parts[3]
             ELSE NaN

\* n.toString() for an integer n >= 0
RECURSIVE ToDigits(_)
ToDigits(n) ==
    IF n < 10 THEN <<Digits[n + 1]>>
    ELSE ToDigits(n \div 10) \o <<Digits[(n % 10) + 1]>>

\* s.padStart(2, '0')
PadStart2(cs) == IF Len(cs) < 2 THEN <<"0">> \o cs ELSE cs

\* the number a value coerces to in isNaN(v), v < 0, v / 3600
ToNumber(v) ==
    IF v.t = "num" THEN v.n
    ELSE IF v.t = "str" THEN NumberOf(v.s)
    ELSE NaN

\* the fields are written without padStart
secondsToTimeNoPad(v) ==
    LET seconds == ToNumber(v)
        hours == seconds \div 3600
        minutes == (seconds % 3600) \div 60
        secs == seconds % 60
    IN  IF isNaN(seconds) \/ seconds < 0 THEN Str(<<"0", "0", ":", "0", "0">>)
        ELSE IF hours > 0
             THEN Str(ToDigits(hours) \o <<":">> \o ToDigits(minutes) \o <<":">>
                      \o ToDigits(secs))
             ELSE Str(ToDigits(minutes) \o <<":">> \o ToDigits(secs))

\* the hours are dropped: always MM:SS, the minutes below 60
secondsToTimeNoHours(v) ==
    LET seconds == ToNumber(v)
        minutes == (seconds % 3600) \div 60
        secs == seconds % 60
    IN  IF isNaN(seconds) \/ seconds < 0 THEN Str(<<"0", "0", ":", "0", "0">>)
        ELSE Str(PadStart2(ToDigits(minutes)) \o <<":">> \o PadStart2(ToDigits(secs)))

secondsToTime(v) ==
    LET seconds == ToNumber(v)
        hours == seconds \div 3600
        minutes == (seconds % 3600) \div 60
        secs == seconds % 60
    IN  IF isNaN(seconds) \/ seconds < 0 THEN Str(<<"0", "0", ":", "0", "0">>)
        ELSE IF hours > 0
             THEN Str(PadStart2(ToDigits(hours)) \o <<":">>
                      \o PadStart2(ToDigits(minutes)) \o <<":">>
                      \o PadStart2(ToDigits(secs)))
             ELSE Str(PadStart2(ToDigits(minutes)) \o <<":">>
                      \o PadStart2(ToDigits(secs)))

\* --------------------------------------------- parsed objects of a response
\* one object of a parsed array: the keys the two extractors read; a key the
\* object lacks is Undef
NoKeys ==
    [title |-> Undef, Title |-> Undef, description |-> Undef,
     Description |-> Undef, tags |-> Undef, Tags |-> Undef,
     startTime |-> Undef, start |-> Undef, StartTime |-> Undef,
     endTime |-> Undef, end |-> Undef, EndTime |-> Undef]

T0100 == <<"0", "1", ":", "0", "0">>
T0159 == <<"0", "1", ":", "5", "9">>
T0200 == <<"0", "2", ":", "0", "0">>
T0300 == <<"0", "3", ":", "0", "0">>
T1200 == <<"1", "2", ":", "0", "0">>
T1301 == <<"1", "3", ":", "0", "1">>
T1x == <<"1", ":", "x">>

\* the shape the service prompt asks for; 60 s long
DraftGood ==
    [NoKeys EXCEPT !.title = Str(<<"A">>), !.startTime = Str(T0100),
                   !.endTime = Str(T0200)]
\* capitalised and short key names; 600 s long
DraftAlias ==
    [NoKeys EXCEPT !.Title = Str(<<"B">>), !.start = Str(T0200),
                   !.EndTime = Str(T1200)]
DraftNoTitle ==
    [NoKeys EXCEPT !.title = Str(<<>>), !.startTime = Str(T0100),
                   !.endTime = Str(T0300)]
\* ends before it starts
DraftBackwards ==
    [NoKeys EXCEPT !.title = Str(<<"A">>), !.startTime = Str(T0300),
                   !.endTime = Str(T0100)]
\* 59 s long
DraftShort ==
    [NoKeys EXCEPT !.title = Str(<<"A">>), !.startTime = Str(T0100),
                   !.endTime = Str(T0159)]
\* 601 s long
DraftLong ==
    [NoKeys EXCEPT !.title = Str(<<"A">>), !.startTime = Str(T0300),
                   !.endTime = Str(T1301)]
\* a start time that is no time
DraftBadTime ==
    [NoKeys EXCEPT !.title = Str(<<"A">>), !.startTime = Str(T1x),
                   !.endTime = Str(T0200)]
\* the shape the lambda prompt asks for: numeric seconds and a tag array
DraftNumeric ==
    [NoKeys EXCEPT !.title = Str(<<"A">>), !.start = Num(60), !.end = Num(120),
                   !.tags = Arr(<<<<"t">>>>)]
\* numeric, untitled, ends before it starts
DraftNumericBad ==
    [NoKeys EXCEPT !.start = Num(200), !.end = Num(100)]

\* the records that arrays of every length up to MaxRecords are made of
CoreDrafts == {DraftGood, DraftNoTitle, DraftBackwards, DraftNumeric, DraftNumericBad}
\* the records that stand alone or after a well-formed one
EdgeDrafts == {DraftAlias, DraftShort, DraftLong, DraftBadTime}

\* the sequences over S of length 1..n
SeqsUpTo(S, n) == UNION {[1..k -> S] : k \in 1..n}
Repeat(x, n) == [i \in 1..n |-> x]

\* ------------------------------------------------- the text of a response
\* A top-level array of the text: what it parses to (objs, or strs when it
\* is an array of strings) and how its text stands with JSON:
\*   "valid"      JSON that the service's cleaning leaves parseable
\*   "fragile"    JSON holding an apostrophe, which the cleaning (line 97)
\*                turns into a quote: the service cannot parse it
\*   "repairable" no JSON (trailing comma, single quotes), parseable once
\*                the service has cleaned it
\*   "broken"     parseable by no one
ObjArray(syn, recs) == [syntax |-> syn, kind |-> "objects", objs |-> recs, strs |-> <<>>]
StrArray(xs) == [syntax |-> "valid", kind |-> "strings", objs |-> <<>>, strs |-> xs]

TopArrays ==
    {ObjArray("valid", r) : r \in SeqsUpTo(CoreDrafts, MaxRecords)}
    \cup {ObjArray("valid", <<d>>) : d \in EdgeDrafts}
    \cup {ObjArray("valid", <<DraftGood, d>>) : d \in EdgeDrafts}
    \cup {ObjArray("valid", Repeat(d, k)) :
            d \in {DraftGood, DraftNumeric}, k \in 1..MaxRepeat}
    \cup {ObjArray(syn, <<d>>) :
            syn \in {"fragile", "repairable", "broken"},
            d \in {DraftGood, DraftNumeric}}
    \cup {ObjArray("valid", <<>>)}

\* an array the prose of the answer holds before the real one
Decoys == {StrArray(<<<<"x">>>>), ObjArray("broken", <<DraftGood>>)}

\* A backend response: empty is a response without text (response.text is
\* undefined); arrays are the top-level arrays of the text in text order
Response(e, as) == [empty |-> e, arrays |-> as]
NoResponse == Response(TRUE, <<>>)
Responses ==
    {Response(TRUE, <<>>), Response(FALSE, <<>>)}
    \cup {Response(FALSE, <<a>>) : a \in TopArrays}
    \cup {Response(FALSE, <<d, ObjArray("valid", <<r>>)>>) :
            d \in Decoys, r \in {DraftGood, DraftNumeric, DraftNoTitle}}

\* ------------------------------------------------------- length of a text
RECURSIVE SumSeq(_)
SumSeq(ns) == IF ns = <<>> THEN 0 ELSE ns[1] + SumSeq(Tail(ns))

\* the keys of an object in the order the text holds them
KeyOrder ==
    <<"title", "Title", "description", "Description", "tags", "Tags",
      "startTime", "start", "StartTime", "endTime", "end", "EndTime">>

\* characters of n comma-separated items of the given lengths
Joined(ns) == SumSeq(ns) + (IF Len(ns) > 0 THEN Len(ns) - 1 ELSE 0)

\* characters of the JSON text of a value, written without white space
ValText(v) ==
    IF v.t = "str" THEN Len(v.s) + 2
    ELSE IF v.t = "num" THEN Len(ToDigits(v.n))
    ELSE IF v.t = "arr" THEN 2 + Joined([i \in 1..Len(v.a) |-> Len(v.a[i]) + 2])
    ELSE 0

\* characters of "key":value, 0 for a key the object lacks
FieldText(o, k) == IF o[k].t = "undef" THEN 0 ELSE Len(k) + 3 + ValText(o[k])

PresentKeys(o) == SelectSeq(KeyOrder, LAMBDA k : o[k].t # "undef")

ObjText(o) ==
    2 + Joined([i \in 1..Len(PresentKeys(o)) |-> FieldText(o, PresentKeys(o)[i])])

ArrayText(a) ==
    IF a.kind = "strings" THEN ValText(Arr(a.strs))
    ELSE 2 + Joined([i \in 1..Len(a.objs) |-> ObjText(a.objs[i])])

\* ----------------------------------------- service: the candidate arrays
HasInnerArray(o) == \E i \in 1..Len(KeyOrder) : o[KeyOrder[i]].t = "arr"

\* the arrays nested in the objects of a top-level array, in text order
RECURSIVE InnerArrays(_)
InnerArrays(objs) ==
    IF objs = <<>> THEN <<>>
    ELSE LET ks == SelectSeq(KeyOrder, LAMBDA k : objs[1][k].t = "arr")
         IN  [i \in 1..Len(ks) |-> objs[1][ks[i]].a] \o InnerArrays(Tail(objs))

\* characters from the '[' of a top-level array to the first ']' after it,
\* which closes the first nested array
FragmentText(objs) ==
    LET h == CHOOSE i \in 1..Len(objs) :
                 HasInnerArray(objs[i]) /\ \A j \in 1..(i - 1) : ~HasInnerArray(objs[j])
        o == objs[h]
        ks == PresentKeys(o)
        p == CHOOSE i \in 1..Len(ks) :
                 o[ks[i]].t = "arr" /\ \A j \in 1..(i - 1) : o[ks[j]].t # "arr"
    IN  1 + SumSeq([i \in 1..(h - 1) |-> ObjText(objs[i]) + 1])
          + 1 + SumSeq([i \in 1..p |-> FieldText(o, ks[i])]) + (p - 1)

\* a candidate: a match of /\[[\s\S]*?\]/g with the length of its text; a
\* fragment is a match cut at the first ']' of an array that nests another
Span(a) == [syntax |-> a.syntax, kind |-> a.kind, objs |-> a.objs,
            strs |-> a.strs, len |-> ArrayText(a)]
Fragment(a) == [syntax |-> "broken", kind |-> "fragment", objs |-> <<>>,
                strs |-> <<>>, len |-> FragmentText(a.objs)]

\* the matches inside one top-level array: the array itself when it nests
\* none; otherwise the fragment up to the first nested ']' and then every
\* later nested array (the closing "}]" holds no '[')
SpansOf(a) ==
    IF a.kind = "strings" \/ \A i \in 1..Len(a.objs) : ~HasInnerArray(a.objs[i])
    THEN <<Span(a)>>
    ELSE <<Fragment(a)>>
         \o [i \in 1..(Len(InnerArrays(a.objs)) - 1) |->
                Span(StrArray(InnerArrays(a.objs)[i + 1]))]

RECURSIVE AllMatches(_)
AllMatches(arrays) ==
    IF arrays = <<>> THEN <<>> ELSE SpansOf(arrays[1]) \o AllMatches(Tail(arrays))

\* allMatches.sort((a, b) => b.length - a.length): stable, longest first
RECURSIVE InsertByLength(_, _)
InsertByLength(x, sorted) ==
    IF sorted = <<>> THEN <<x>>
    ELSE IF sorted[1].len >= x.len THEN <<sorted[1]>> \o InsertByLength(x, Tail(sorted))
    ELSE <<x>> \o sorted

RECURSIVE SortByLength(_)
SortByLength(spans) ==
    IF spans = <<>> THEN <<>>
    ELSE InsertByLength(spans[Len(spans)],
                        SortByLength(SubSeq(spans, 1, Len(spans) - 1)))

\* ------------------------------------------------- service: the extractor
\* JSON.parse(cleaned) returns
ServiceParses(sp) == sp.kind # "fragment" /\ sp.syntax \in {"valid", "repairable"}

\* lines 124-130: a non-empty array whose FIRST element has a title, a start
\* and an end under one of their names
FirstClipOk(sp) ==
    /\ sp.kind = "objects"
    /\ Len(sp.objs) > 0
    /\ Truthy(OrElse(sp.objs[1].title, sp.objs[1].Title))
    /\ Truthy(OrElse(OrElse(sp.objs[1].startTime, sp.objs[1].start), sp.objs[1].StartTime))
    /\ Truthy(OrElse(OrElse(sp.objs[1].endTime, sp.objs[1].end), sp.objs[1].EndTime))

\* lines 133-139
NormalizeService(o) ==
    [title |-> OrElse(OrElse(o.title, o.Title), Str(<<>>)),
     description |-> OrElse(OrElse(o.description, o.Description), Str(<<>>)),
     tags |-> OrElse(OrElse(o.tags, o.Tags), Arr(<<>>)),
     startTime |-> OrElse(OrElse(OrElse(o.startTime, o.start), o.StartTime), Str(<<>>)),
     endTime |-> OrElse(OrElse(OrElse(o.endTime, o.end), o.EndTime), Str(<<>>))]

Returned(cs) == [ok |-> TRUE, clips |-> cs, error |-> "none"]
Thrown(e) == [ok |-> FALSE, clips |-> <<>>, error |-> e]

\* the loop of lines 81-152 over the sorted candidates
RECURSIVE TryArrays(_)
TryArrays(sorted) ==
    IF sorted = <<>> THEN Thrown("UNRECOVERABLE_JSON_FALLBACK_TRIGGERED")
    ELSE IF ServiceParses(sorted[1]) /\ FirstClipOk(sorted[1])
         THEN Returned([i \in 1..Len(sorted[1].objs) |-> NormalizeService(sorted[1].objs[i])])
         ELSE TryArrays(Tail(sorted))

\* a text without any array yields no clips instead of an error
extractNoArrayReturnsEmpty(r) ==
    IF AllMatches(r.arrays) = <<>> THEN Returned(<<>>)
    ELSE TryArrays(SortByLength(AllMatches(r.arrays)))

extractValidClipsArrayFromGemini(r) ==
    IF AllMatches(r.arrays) = <<>> THEN Thrown("No JSON array found")
    ELSE TryArrays(SortByLength(AllMatches(r.arrays)))

\* -------------------------------------------------- lambda: the extractor
\* the regex of line 237 matches: some array holds an object with "start": digits
ClipArrayMatch(r) ==
    \E i \in 1..Len(r.arrays) : \E j \in 1..Len(r.arrays[i].objs) :
        r.arrays[i].objs[j].start.t = "num"

\* JSON.parse of the greedy match, first '[' of the text to its last ']'
LambdaParses(r) == Len(r.arrays) = 1 /\ r.arrays[1].syntax \in {"valid", "fragile"}

\* lines 262-268
NormalizeLambda(o) ==
    [title |-> OrElse(o.title, Str(<<>>)),
     description |-> OrElse(o.description, Str(<<>>)),
     tags |-> IF o.tags.t = "arr" THEN o.tags ELSE Arr(<<>>),
     startTime |-> secondsToTime(o.start),
     endTime |-> secondsToTime(o.end)]

extractClipsFromGemini(r) ==
    IF ~ClipArrayMatch(r) THEN Thrown("No valid clip array found in response")
    ELSE IF ~LambdaParses(r) THEN Thrown("SyntaxError")
    ELSE IF r.arrays[1].kind # "objects" \/ Len(r.arrays[1].objs) = 0
         THEN Thrown("Parsed data is not a valid non-empty array")
    ELSE IF r.arrays[1].objs[1].start.t # "num" \/ r.arrays[1].objs[1].end.t # "num"
         THEN Thrown("Invalid clip structure")
    ELSE Returned([i \in 1..Len(r.arrays[1].objs) |-> NormalizeLambda(r.arrays[1].objs[i])])

\* ------------------------------------------------- transcript alignment
Sentinel(msg) == <<msg>>
InvalidTimestamps == Sentinel("Could not extract transcript due to invalid timestamps.")
NotFound == Sentinel("Transcript for this segment could not be found.")

\* texts.join(' ')
RECURSIVE JoinSpace(_)
JoinSpace(texts) ==
    IF texts = <<>> THEN <<>>
    ELSE IF Len(texts) = 1 THEN texts[1]
    ELSE texts[1] \o <<" ">> \o JoinSpace(Tail(texts))

\* s.trim()
RECURSIVE Trim(_)
Trim(cs) ==
    IF cs = <<>> THEN <<>>
    ELSE IF cs[1] = " " THEN Trim(Tail(cs))
    ELSE IF cs[Len(cs)] = " " THEN Trim(SubSeq(cs, 1, Len(cs) - 1))
    ELSE cs

\* the filter keeps a segment that only touches the clip
RelevantSegmentsClosed(segs, startSeconds, endSeconds) ==
    SelectSeq(segs, LAMBDA sg : sg.start <= endSeconds /\ sg.start + sg.duration >= startSeconds)

\* line 354-358: the segments that overlap [startSeconds, endSeconds)
RelevantSegments(segs, startSeconds, endSeconds) ==
    SelectSeq(segs, LAMBDA sg : sg.start < endSeconds /\ sg.start + sg.duration > startSeconds)

\* the callback returns the joined text as it is, empty or not
WithTranscriptNoSentinel(clip, segs) ==
    LET startSeconds == timeToSeconds(clip.startTime)
        endSeconds == timeToSeconds(clip.endTime)
        rel == RelevantSegments(segs, startSeconds, endSeconds)
    IN  [title |-> clip.title, description |-> clip.description, tags |-> clip.tags,
         startTime |-> clip.startTime, endTime |-> clip.endTime,
         transcript |-> IF isNaN(startSeconds) \/ isNaN(endSeconds) THEN InvalidTimestamps
                        ELSE Trim(JoinSpace([i \in 1..Len(rel) |-> rel[i].text]))]

\* the callback of clipsFromAi.map, for a clip whose times do not throw
WithTranscript(clip, segs) ==
    LET startSeconds == timeToSeconds(clip.startTime)
        endSeconds == timeToSeconds(clip.endTime)
        rel == RelevantSegments(segs, startSeconds, endSeconds)
        transcriptText == Trim(JoinSpace([i \in 1..Len(rel) |-> rel[i].text]))
    IN  [title |-> clip.title, description |-> clip.description, tags |-> clip.tags,
         startTime |-> clip.startTime, endTime |-> clip.endTime,
         transcript |-> IF isNaN(startSeconds) \/ isNaN(endSeconds) THEN InvalidTimestamps
                        ELSE IF transcriptText = <<>> THEN NotFound
                        ELSE transcriptText]

\* the map keeps one cursor over the segments: a clip is given only the
\* segments after the last one an earlier clip matched
clipsWithTranscriptsSharedCursor(clips, segs) ==
    LET matched(j) ==
            IF isNaN(timeToSeconds(clips[j].startTime)) \/ isNaN(timeToSeconds(clips[j].endTime))
            THEN {}
            ELSE {k \in 1..Len(segs) :
                    /\ segs[k].start < timeToSeconds(clips[j].endTime)
                    /\ segs[k].start + segs[k].duration > timeToSeconds(clips[j].startTime)}
        seen(i) == {0} \cup UNION {matched(j) : j \in 1..(i - 1)}
        cursor(i) == CHOOSE k \in seen(i) : \A l \in seen(i) : l <= k
    IN  IF \E i \in 1..Len(clips) :
              timeToSecondsThrows(clips[i].startTime) \/ timeToSecondsThrows(clips[i].endTime)
        THEN Thrown("TypeError: time.includes is not a function")
        ELSE Returned([i \in 1..Len(clips) |->
                 WithTranscript(clips[i], SubSeq(segs, cursor(i) + 1, Len(segs)))])

\* lines 346-363: the map throws when timeToSeconds throws on some clip
clipsWithTranscripts(clips, segs) ==
    IF \E i \in 1..Len(clips) :
          timeToSecondsThrows(clips[i].startTime) \/ timeToSecondsThrows(clips[i].endTime)
    THEN Thrown("TypeError: time.includes is not a function")
    ELSE Returned([i \in 1..Len(clips) |-> WithTranscript(clips[i], segs)])

\* the transcripts an invocation is given (start, duration in seconds)
Segment(tx, st, du) == [text |-> tx, start |-> st, duration |-> du]
SegmentLists ==
    {<<>>,
     <<Segment(<<"a">>, 0, 60), Segment(<<" ">>, 60, 60), Segment(<<"b", " ">>, 120, 60),
       Segment(<<"c">>, 180, 600)>>,
     <<Segment(<<"p">>, 0, 60), Segment(<<"q">>, 60, 60), Segment(<<"r">>, 120, 60),
       Segment(<<"s">>, 180, 600)>>}

\* ------------------------------------------------------------ the state
VARIABLES
    variant,            \* which copy of the service runs
    plan,               \* the caller's plan
    apiKey,             \* process.env.GEMINI_API_KEY || process.env.API_KEY is set
    transcriptSegments, \* the segments the caller passes
    ai,                 \* the module-level client: FALSE is null
    pc,                 \* where the invocation stands
    attempts,           \* the loop counter
    lastError,          \* message of the error caught last, "null" before any
    response,           \* the raw response of the current attempt
    result,             \* the clips the invocation returns
    thrown,             \* the error the invocation throws
    calls,              \* backend calls issued so far
    inFlight,           \* backend calls issued and not yet settled
    timer,              \* the pending setTimeout delay in ms, 0 when none
    delays,             \* the delays waited so far
    failures,           \* the message of every failed attempt, in order
    outcome,            \* how the backend call of the current attempt ended
    extractorRan,       \* the extractor was run on the current attempt
    cancelled           \* the caller has given the invocation up

vars ==
    <<variant, plan, apiKey, transcriptSegments, ai, pc, attempts, lastError,
      response, result, thrown, calls, inFlight, timer, delays, failures,
      outcome, extractorRan, cancelled>>

inputs == <<variant, plan, apiKey, transcriptSegments>>

\* The state of the functions that are exercised on their own, outside an
\* invocation of generateClipsFromTranscript:
VARIABLES
    conv,               \* a time string on its way through timeToSeconds and secondsToTime
    store,              \* a user's item of window.localStorage and the last call on it
    scan,               \* an answer on its way through extractValidClipsArrayFromGemini
    pair,               \* two invocations of the service in one process
    app,                \* a request on its way through handleGenerateClips
    db                  \* the user's usage in memory and in the user_usage table

libs == <<conv, store, scan, pair, app, db>>

\* no conversion is under way
NoConversion == [phase |-> "none", t |-> Undef, seconds |-> 0, back |-> Undef, recovered |-> 0]

\* the item of a user: absent (getItem returns null), text that is no JSON
\* array, or the array of clips that JSON.stringify wrote
Absent == [kind |-> "absent", clips |-> <<>>]
Garbage == [kind |-> "garbage", clips |-> <<>>]
Stored(cs) == [kind |-> "array", clips |-> cs]

\* clipService is not in use
NoStore == [item |-> Absent, op |-> "none", newClips |-> <<>>, email |-> <<>>]

\* no answer is being scanned
NoScan == [phase |-> "none"]

\* the page is not open
NoPair == [phase |-> "none"]
NoApp == [phase |-> "none"]
NoDb == [phase |-> "none"]

MAX_ATTEMPTS == IF variant = "service" THEN MAX_ATTEMPTS_SERVICE ELSE MAX_ATTEMPTS_LAMBDA

\* 2 ^ n
RECURSIVE Pow2(_)
Pow2(n) == IF n = 0 THEN 1 ELSE 2 * Pow2(n - 1)

\* the same delay before every retry
delayNotDoubled == IF variant = "service" THEN BASE_DELAY_SERVICE ELSE DELAY_LAMBDA

\* service line 385: 2000 * Math.pow(2, attempts - 1); lambda line 391: 1500
delay ==
    IF variant = "service" THEN BASE_DELAY_SERVICE * Pow2(attempts - 1)
    ELSE DELAY_LAMBDA

\* errors the backend call rejects with
BackendErrors == {"timeout", "HTTP 503"}

NoError == [kind |-> "none", attempts |-> 0, message |-> "none"]

Init ==
    /\ variant \in Variants
    /\ plan \in Plans
    /\ apiKey \in BOOLEAN
    /\ transcriptSegments \in SegmentLists
    /\ ai = FALSE
    /\ pc = "Loop"
    /\ attempts = 0
    /\ lastError = "null"
    /\ response = NoResponse
    /\ result = <<>>
    /\ thrown = NoError
    /\ calls = 0
    /\ inFlight = 0
    /\ timer = 0
    /\ delays = <<>>
    /\ failures = <<>>
    /\ outcome = "none"
    /\ extractorRan = FALSE
    /\ cancelled = FALSE
    /\ conv = NoConversion
    /\ store = NoStore
    /\ scan = NoScan
    /\ pair = NoPair
    /\ app = NoApp
    /\ db = NoDb

\* lastError keeps the first error caught
CaughtKeepsFirst(msg) ==
    /\ lastError' = IF lastError = "null" THEN msg ELSE lastError
    /\ failures' = Append(failures, msg)
    /\ pc' = "RetryPending"

\* the catch clause takes the error: lastError = error
Caught(msg) ==
    /\ lastError' = msg
    /\ failures' = Append(failures, msg)
    /\ pc' = "RetryPending"

\* The loop test and the head of the try block: count the attempt, get the
\* client (which throws, inside the try, when no key is configured) and
\* issue the backend call
Invoke ==
    /\ pc = "Loop"
    /\ attempts < MAX_ATTEMPTS
    /\ attempts' = attempts + 1
    /\ extractorRan' = FALSE
    /\ IF apiKey
       THEN /\ ai' = TRUE
            /\ calls' = calls + 1
            /\ inFlight' = inFlight + 1
            /\ pc' = "Invoking"
            /\ outcome' = "pending"
            /\ UNCHANGED <<lastError, failures>>
       ELSE /\ Caught("GEMINI_API_KEY environment variable is not set")
            /\ outcome' = "none"
            /\ UNCHANGED <<ai, calls, inFlight>>
    /\ UNCHANGED <<libs, inputs, response, result, thrown, timer, delays, cancelled>>

\* the rejection is swallowed and the extractor runs on a response without text
BackendRejectsThenExtract ==
    /\ pc = "Invoking"
    /\ response' = NoResponse
    /\ inFlight' = inFlight - 1
    /\ outcome' = "error"
    /\ pc' = "Extracting"
    /\ UNCHANGED <<libs, inputs, ai, attempts, lastError, result, thrown, calls, timer,
                   delays, failures, extractorRan, cancelled>>

\* generateContent rejects: timeout, non-2xx
BackendRejects ==
    /\ pc = "Invoking"
    /\ \E e \in BackendErrors : Caught(e)
    /\ inFlight' = inFlight - 1
    /\ outcome' = "error"
    /\ UNCHANGED <<libs, inputs, ai, attempts, response, result, thrown, calls, timer,
                   delays, extractorRan, cancelled>>

\* generateContent resolves with a response, which may hold no text
BackendResolves ==
    /\ pc = "Invoking"
    /\ \E r \in Responses :
          /\ response' = r
          /\ outcome' = IF r.empty THEN "empty" ELSE "text"
    /\ inFlight' = inFlight - 1
    /\ pc' = "Extracting"
    /\ UNCHANGED <<libs, inputs, ai, attempts, lastError, result, thrown, calls, timer,
                   delays, failures, extractorRan, cancelled>>

extract(v, r) ==
    IF v = "service" THEN extractValidClipsArrayFromGemini(r)
    ELSE extractClipsFromGemini(r)

\* service lines 341-367 as a function of the raw response: extract, then
\* attach the transcripts; what either throws is the attempt's error
attempt(v, r, segs) ==
    IF ~extract(v, r).ok THEN extract(v, r)
    ELSE clipsWithTranscripts(extract(v, r).clips, segs)

\* attempt, tabulated over the inputs of the model
AttemptTable ==
    [v \in Variants |-> [segs \in SegmentLists |-> [r \in Responses |->
        attempt(v, r, segs)]]]

\* a failed extraction returns no clips instead of throwing
ExtractReturnsEmpty ==
    /\ pc = "Extracting"
    /\ extractorRan' = TRUE
    /\ response' = NoResponse
    /\ result' = AttemptTable[variant][transcriptSegments][response].clips
    /\ pc' = "Succeeded"
    /\ UNCHANGED <<lastError, failures>>
    /\ UNCHANGED <<libs, inputs, ai, attempts, thrown, calls, inFlight, timer, delays,
                   outcome, cancelled>>

\* service lines 341-367: extract, attach the transcripts, return; whatever
\* is thrown on the way is caught at line 369
Extract ==
    /\ pc = "Extracting"
    /\ extractorRan' = TRUE
    /\ response' = NoResponse
    /\ IF AttemptTable[variant][transcriptSegments][response].ok
       THEN /\ result' = AttemptTable[variant][transcriptSegments][response].clips
            /\ pc' = "Succeeded"
            /\ UNCHANGED <<lastError, failures>>
       ELSE /\ Caught(AttemptTable[variant][transcriptSegments][response].error)
            /\ UNCHANGED result
    /\ UNCHANGED <<libs, inputs, ai, attempts, thrown, calls, inFlight, timer, delays,
                   outcome, cancelled>>

\* the last-attempt test reads attempts > MAX_ATTEMPTS
BackoffOffByOne ==
    /\ pc = "RetryPending"
    /\ ~(attempts > MAX_ATTEMPTS)
    /\ timer' = delay
    /\ pc' = "Delay"
    /\ UNCHANGED <<libs, inputs, ai, attempts, lastError, response, result, thrown, calls,
                   inFlight, delays, failures, outcome, extractorRan, cancelled>>

\* the timer is started and not awaited
BackoffNotAwaited ==
    /\ pc = "RetryPending"
    /\ ~(attempts >= MAX_ATTEMPTS)
    /\ timer' = delay
    /\ pc' = "Loop"
    /\ UNCHANGED <<libs, inputs, ai, attempts, lastError, response, result, thrown, calls,
                   inFlight, delays, failures, outcome, extractorRan, cancelled>>

\* service lines 373-387: not the last attempt, so start the timer
Backoff ==
    /\ pc = "RetryPending"
    /\ ~(attempts >= MAX_ATTEMPTS)
    /\ timer' = delay
    /\ pc' = "Delay"
    /\ UNCHANGED <<libs, inputs, ai, attempts, lastError, response, result, thrown, calls,
                   inFlight, delays, failures, outcome, extractorRan, cancelled>>

\* the timer fires and the loop goes round
TimerFires ==
    /\ pc = "Delay"
    /\ delays' = Append(delays, timer)
    /\ timer' = 0
    /\ pc' = "Loop"
    /\ UNCHANGED <<libs, inputs, ai, attempts, lastError, response, result, thrown, calls,
                   inFlight, failures, outcome, extractorRan, cancelled>>

\* service lines 374-377 and 391-395: the last attempt failed (break), or
\* the loop test failed; throw the error that names MAX_ATTEMPTS and the
\* message of lastError
Exhaust ==
    /\ \/ pc = "RetryPending" /\ attempts >= MAX_ATTEMPTS
       \/ pc = "Loop" /\ ~(attempts < MAX_ATTEMPTS)
    /\ thrown' = [kind |-> "Failed to generate clips", attempts |-> MAX_ATTEMPTS,
                  message |-> IF lastError = "null" THEN "Unknown error" ELSE lastError]
    /\ pc' = "ExhaustedFailed"
    /\ UNCHANGED <<libs, inputs, ai, attempts, lastError, response, result, calls, inFlight,
                   timer, delays, failures, outcome, extractorRan, cancelled>>

\* The caller gives the invocation up (its own timeout, a closed page) while
\* a call is in flight or a delay is pending.  generateClipsFromTranscript
\* takes no signal and reads no flag: nothing of its state changes.
CallerCancels ==
    /\ pc \in {"Invoking", "Delay"}
    /\ ~cancelled
    /\ cancelled' = TRUE
    /\ UNCHANGED <<libs, inputs, ai, pc, attempts, lastError, response, result, thrown, calls,
                   inFlight, timer, delays, failures, outcome, extractorRan>>

Next ==
    \/ Invoke
    \/ BackendRejects
    \/ BackendResolves
    \/ Extract
    \/ Backoff
    \/ TimerFires
    \/ Exhaust
    \/ CallerCancels

Spec == Init /\ [][Next]_vars

\* the event loop runs every continuation, every timer fires and every
\* backend call settles
Step == Invoke \/ BackendRejects \/ BackendResolves \/ Extract \/ Backoff
        \/ TimerFires \/ Exhaust
FairSpec == Spec /\ WF_vars(Step)

\* the clip limit the prompt of getSystemInstruction states for a plan
maxClipCount(p) ==
    IF p = "casual" THEN CLIP_LIMIT_CASUAL
    ELSE IF p = "mastermind" THEN CLIP_LIMIT_MASTERMIND
    ELSE CLIP_LIMIT_FREE

\* ------------------------------------------- the time conversions alone
\* no invocation of generateClipsFromTranscript is under way
Dormant ==
    /\ variant = "lambda"
    /\ plan = "free"
    /\ apiKey = FALSE
    /\ transcriptSegments = <<>>
    /\ ai = FALSE
    /\ pc = "NotInvoked"
    /\ attempts = 0
    /\ lastError = "null"
    /\ response = NoResponse
    /\ result = <<>>
    /\ thrown = NoError
    /\ calls = 0
    /\ inFlight = 0
    /\ timer = 0
    /\ delays = <<>>
    /\ failures = <<>>
    /\ outcome = "none"
    /\ extractorRan = FALSE
    /\ cancelled = FALSE

\* a field of a time string: the digits of n, padded to two or not
TimeField(n, padded) == IF padded THEN PadStart2(ToDigits(n)) ELSE ToDigits(n)

\* the strings MM:SS and HH:MM:SS
TimeStrings ==
    {TimeField(m, p) \o <<":">> \o TimeField(x, p) :
        m \in 0..MaxUnit, x \in 0..MaxUnit, p \in BOOLEAN}
    \cup {TimeField(h, p) \o <<":">> \o TimeField(m, p) \o <<":">> \o TimeField(x, p) :
        h \in 0..MaxHours, m \in 0..MaxUnit, x \in 0..MaxUnit, p \in BOOLEAN}

\* the numeric start or end of a parsed clip: every whole second up to the
\* longest time string of the model, and one of a hundred hours
StartSeconds ==
    0..(MaxHours * 3600 + MaxUnit * 60 + MaxUnit) \cup {100 * 3600 + 59 * 60 + 59}

TimeInit ==
    /\ Dormant
    /\ store = NoStore
    /\ scan = NoScan
    /\ pair = NoPair
    /\ app = NoApp
    /\ db = NoDb
    /\ \/ \E t \in TimeStrings :
             conv = [phase |-> "string", t |-> Str(t), seconds |-> 0, back |-> Undef,
                     recovered |-> 0]
       \/ \E n \in StartSeconds :
             conv = [phase |-> "number", t |-> Undef, seconds |-> n, back |-> Undef,
                     recovered |-> 0]

\* lambda line 358: timeToSeconds(clip.startTime), of a time string or of
\* the string line 266 made of a number
ToSeconds ==
    /\ conv.phase \in {"string", "clip"}
    /\ conv' = IF conv.phase = "string"
               THEN [conv EXCEPT !.phase = "seconds", !.seconds = timeToSeconds(conv.t)]
               ELSE [conv EXCEPT !.phase = "aligned", !.recovered = timeToSeconds(conv.back)]
    /\ UNCHANGED <<vars, store, scan, pair, app, db>>

\* lambda line 266: secondsToTime(clip.start)
ToTime ==
    /\ conv.phase \in {"seconds", "number"}
    /\ conv' = [conv EXCEPT !.phase = IF conv.phase = "seconds" THEN "formatted" ELSE "clip",
                            !.back = secondsToTime(Num(conv.seconds))]
    /\ UNCHANGED <<vars, store, scan, pair, app, db>>

TimeNext == ToSeconds \/ ToTime

TimeSpec == TimeInit /\ [][TimeNext]_<<vars, libs>>

\* --------------------------------------- the service on the response text
\* \s of a regular expression, over the characters of the model
IsWs(c) == c \in {" ", "\n", "\t", "\r", "\f"}

\* [a-zA-Z_]
Letters ==
    {"a", "b", "c", "d", "e", "f", "g", "h", "i", "j", "k", "l", "m", "n", "o", "p", "q",
     "r", "s", "t", "u", "v", "w", "x", "y", "z", "A", "B", "C", "D", "E", "F", "G", "H",
     "I", "J", "K", "L", "M", "N", "O", "P", "Q", "R", "S", "T", "U", "V", "W", "X", "Y",
     "Z", "_"}

\* the character at index i, "" past the end
At(cs, i) == IF i >= 1 /\ i <= Len(cs) THEN cs[i] ELSE ""

\* length of the run of white space that starts at index i
RECURSIVE WsRun(_, _)
WsRun(cs, i) == IF i <= Len(cs) /\ IsWs(cs[i]) THEN 1 + WsRun(cs, i + 1) ELSE 0

\* length of the run of [a-zA-Z0-9_] that starts at index i
RECURSIVE IdentRun(_, _)
IdentRun(cs, i) ==
    IF i <= Len(cs) /\ (cs[i] \in Letters \/ IsDigit(cs[i])) THEN 1 + IdentRun(cs, i + 1)
    ELSE 0

\* index of the first character of the set C at or after index i, 0 if none
IndexOf(cs, C, i) ==
    LET hits == {j \in i..Len(cs) : cs[j] \in C}
    IN  IF hits = {} THEN 0 ELSE CHOOSE j \in hits : \A k \in hits : j <= k

StartsWith(cs, p) == Len(cs) >= Len(p) /\ SubSeq(cs, 1, Len(p)) = p

\* s.trim()
RECURSIVE TrimWs(_)
TrimWs(cs) ==
    IF cs = <<>> THEN <<>>
    ELSE IF IsWs(cs[1]) THEN TrimWs(Tail(cs))
    ELSE IF IsWs(cs[Len(cs)]) THEN TrimWs(SubSeq(cs, 1, Len(cs) - 1))
    ELSE cs

\* s with the white space at its end removed
RECURSIVE TrimEnd(_)
TrimEnd(cs) ==
    IF cs # <<>> /\ IsWs(cs[Len(cs)]) THEN TrimEnd(SubSeq(cs, 1, Len(cs) - 1)) ELSE cs

\* the three backquotes of a markdown fence; "~" stands for the backquote
Fence == <<"~", "~", "~">>
FenceJson == Fence \o <<"j", "s", "o", "n">>

\* no match of a pattern at the head of a text; a match of n characters
\* that is replaced by r
NoMatch == [len |-> 0, rep |-> <<>>]
Hit(n, r) == [len |-> n, rep |-> r]

\* line 106: the replace of unquoted string values, at a colon.  The
\* pattern is :\s*([^"{\[\d\-truefalsenull][^,\]}]*?)(\s*[,}\]]) : after
\* the colon \s* gives white space back until the first character of the
\* value is none of the excluded ones (a white space character is none),
\* and the value runs, lazily, up to the white space before the first
\* , } or ] that follows
UnquotedValue(cs) ==
    LET excluded == {"\"", "{", "[", "-", "t", "r", "u", "e", "f", "a", "l", "s", "n"}
        K == {k \in 0..WsRun(cs, 2) :
                /\ At(cs, 2 + k) # ""
                /\ At(cs, 2 + k) \notin excluded
                /\ ~IsDigit(At(cs, 2 + k))
                /\ IndexOf(cs, {",", "}", "]"}, 3 + k) # 0}
        p == 2 + (CHOOSE x \in K : \A y \in K : y <= x)
        q == IndexOf(cs, {",", "}", "]"}, p + 1)
        e == CHOOSE x \in p..(q - 1) :
                 /\ \A j \in (x + 1)..(q - 1) : IsWs(cs[j])
                 /\ \A y \in p..(x - 1) : \E j \in (y + 1)..(q - 1) : ~IsWs(cs[j])
        trimmed == TrimWs(SubSeq(cs, p, e))
    IN  IF K = {} THEN NoMatch
        ELSE IF trimmed = <<>> \/ trimmed \in {<<"t", "r", "u", "e">>,
                    <<"f", "a", "l", "s", "e">>, <<"n", "u", "l", "l">>}
             THEN Hit(q, SubSeq(cs, 1, q))
        ELSE Hit(q, <<":", " ", "\"">> \o trimmed \o <<"\"">> \o SubSeq(cs, e + 1, q))

\* the replace of lines 89-93 that takes the escape of a letter
EscapeStep ==
    [c \in {"n", "r", "t", "b", "f"} |->
        CASE c = "n" -> "escaped n" [] c = "r" -> "escaped r" [] c = "t" -> "escaped t"
          [] c = "b" -> "escaped b" [] c = "f" -> "escaped f"]

\* the match at the head of cs of one pattern of lines 58-62 and 89-116, a
\* pattern being named by its comment in the source
MatchAt(step, cs) ==
    LET w == WsRun(cs, 2)
        n == IdentRun(cs, 2 + w)
        w2 == WsRun(cs, 2 + w + n)
    IN  CASE step \in {"escaped n", "escaped r", "escaped t"} ->
                \* /\\n/g, /\\r/g, /\\t/g to ' '
                IF cs[1] = "\\" /\ At(cs, 2) \in {"n", "r", "t"} /\ step = EscapeStep[At(cs, 2)]
                THEN Hit(2, <<" ">>)
                ELSE NoMatch
          [] step \in {"escaped b", "escaped f"} ->
                \* /\\b/g, /\\f/g to ''
                IF cs[1] = "\\" /\ At(cs, 2) \in {"b", "f"} /\ step = EscapeStep[At(cs, 2)]
                THEN Hit(2, <<>>)
                ELSE NoMatch
          [] step = "trailing commas" ->
                \* /,(\s*[\]}])/g to '$1'
                IF cs[1] = "," /\ At(cs, 2 + w) \in {"]", "}"}
                THEN Hit(2 + w, SubSeq(cs, 2, 2 + w))
                ELSE NoMatch
          [] step = "single quotes" ->
                \* /'/g to '"'
                IF cs[1] = "'" THEN Hit(1, <<"\"">>) ELSE NoMatch
          [] step = "unquoted property names" ->
                \* /([{,]\s*)([a-zA-Z_][a-zA-Z0-9_]*)\s*:/g to '$1"$2":'
                IF /\ cs[1] \in {"{", ","}
                   /\ At(cs, 2 + w) \in Letters
                   /\ At(cs, 2 + w + n + w2) = ":"
                THEN Hit(2 + w + n + w2,
                         SubSeq(cs, 1, 1 + w) \o <<"\"">> \o SubSeq(cs, 2 + w, 1 + w + n)
                           \o <<"\"", ":">>)
                ELSE NoMatch
          [] step = "control characters" ->
                \* /[\x00-\x08\x0B-\x0C\x0E-\x1F\x7F]/g to ''
                IF cs[1] = "\f" THEN Hit(1, <<>>) ELSE NoMatch
          [] step = "missing commas" ->
                \* /"\s*\n\s*"/g to '",\n"'
                IF /\ cs[1] = "\""
                   /\ At(cs, 2 + w) = "\""
                   /\ \E j \in 2..(1 + w) : cs[j] = "\n"
                THEN Hit(2 + w, <<"\"", ",", "\n", "\"">>)
                ELSE NoMatch
          [] step = "adjacent objects" ->
                \* /}[\s\n]*{/g to '},{'
                IF cs[1] = "}" /\ At(cs, 2 + w) = "{" THEN Hit(2 + w, <<"}", ",", "{">>)
                ELSE NoMatch
          [] step = "unquoted string values" ->
                IF cs[1] = ":" THEN UnquotedValue(cs) ELSE NoMatch
          [] step = "json markdown" ->
                \* the fence followed by json, globally, to ''
                IF StartsWith(cs, FenceJson) THEN Hit(Len(FenceJson), <<>>) ELSE NoMatch
          [] step = "markdown" ->
                \* the fence, globally, to ''
                IF StartsWith(cs, Fence) THEN Hit(Len(Fence), <<>>) ELSE NoMatch
          [] step = "multiple spaces" ->
                \* /\s+/g to ' '
                IF IsWs(cs[1]) THEN Hit(WsRun(cs, 1), <<" ">>) ELSE NoMatch

\* s.replace(pattern, replacement) with a global pattern: the matches from
\* left to right, each search starting where the match before it ended
\* the function f of 1..n as the sequence of its values
Table(f) == <<>> \o f

\* the positions a search stands at that starts at position 1 and goes from
\* position i to position next[i]: the positions reached in 1, 2, 4, ...
\* steps, jump being next applied so many times
RECURSIVE SearchPositions(_, _)
SearchPositions(reached, jump) ==
    IF \A i \in reached : jump[i] \in reached THEN reached
    ELSE SearchPositions(reached \cup {jump[i] : i \in reached},
                         Table([i \in DOMAIN jump |-> jump[jump[i]]]))

\* parts[lo] \o ... \o parts[hi]
RECURSIVE Concat(_, _, _)
Concat(parts, lo, hi) ==
    IF lo > hi THEN <<>>
    ELSE IF lo = hi THEN parts[lo]
    ELSE Concat(parts, lo, (lo + hi) \div 2) \o Concat(parts, (lo + hi) \div 2 + 1, hi)

ReplaceAll(step, cs) ==
    LET n == Len(cs)
        m == Table([i \in 1..n |-> MatchAt(step, SubSeq(cs, i, n))])
        \* where the search goes on: behind the match, or at the next character
        next == Table([i \in 1..(n + 1) |->
                    IF i > n THEN i ELSE IF m[i].len = 0 THEN i + 1 ELSE i + m[i].len])
        at == SearchPositions({1}, next)
        parts == Table([i \in 1..n |->
                    IF i \notin at THEN <<>>
                    ELSE IF m[i].len = 0 THEN <<cs[i]>> ELSE m[i].rep])
    IN  Concat(parts, 1, n)

\* lines 87-116: the replaces of the cleaning sequence, in order
CleaningSequence ==
    <<"escaped n", "escaped r", "escaped t", "escaped b", "escaped f", "trailing commas", "single quotes",
      "unquoted property names", "control characters", "missing commas",
      "adjacent objects", "unquoted string values", "markdown", "multiple spaces">>

\* lines 52-62: trim, then remove the markdown wrappers
stripMarkdown(raw) ==
    LET t0 == TrimWs(raw)
        \* the fence and json at the start, with the white space behind them
        t1 == IF StartsWith(t0, FenceJson)
              THEN SubSeq(t0, Len(FenceJson) + 1 + WsRun(t0, Len(FenceJson) + 1), Len(t0))
              ELSE t0
        \* the fence at the start, with the white space behind it
        t2 == IF StartsWith(t1, Fence)
              THEN SubSeq(t1, Len(Fence) + 1 + WsRun(t1, Len(Fence) + 1), Len(t1))
              ELSE t1
        \* the fence at the end, with the white space before it
        t3 == IF Len(t2) >= Len(Fence) /\ SubSeq(t2, Len(t2) - Len(Fence) + 1, Len(t2)) = Fence
              THEN TrimEnd(SubSeq(t2, 1, Len(t2) - Len(Fence)))
              ELSE t2
    IN  ReplaceAll("markdown", ReplaceAll("json markdown", t3))

\* text.match(/\[[\s\S]*?\]/g): from each '[' to the first ']' after it,
\* the search going on behind the match
RECURSIVE arrayMatches(_)
arrayMatches(text) ==
    LET i == IndexOf(text, {"["}, 1)
        j == IndexOf(text, {"]"}, i + 1)
    IN  IF i = 0 \/ j = 0 THEN <<>>
        ELSE <<SubSeq(text, i, j)>> \o arrayMatches(SubSeq(text, j + 1, Len(text)))

\* ----------------------------------------------------------- JSON.parse
\* The values JSON.parse is modelled for: strings, unsigned integers, the
\* literals, arrays of strings, and, at the top, arrays of objects of such
\* values and arrays of strings.
ParseFails == [ok |-> FALSE, pos |-> 0, v |-> Undef]
Parsed(p, val) == [ok |-> TRUE, pos |-> p, v |-> val]

\* the character an escape sequence of a JSON string stands for; "<BS>" is
\* the backspace character
Unescaped ==
    [c \in {"\"", "\\", "/", "n", "t", "r", "f", "b"} |->
        CASE c = "n" -> "\n" [] c = "t" -> "\t" [] c = "r" -> "\r" [] c = "f" -> "\f"
          [] c = "b" -> "<BS>" [] OTHER -> c]

\* the characters of a JSON string from index i, behind its opening quote,
\* to its closing quote; a raw control character ends the parse
RECURSIVE StringBody(_, _)
StringBody(cs, i) ==
    IF i > Len(cs) \/ cs[i] \in {"\n", "\t", "\r", "\f"} THEN ParseFails
    ELSE IF cs[i] = "\"" THEN Parsed(i + 1, Str(<<>>))
    ELSE IF cs[i] = "\\"
         THEN IF At(cs, i + 1) \notin DOMAIN Unescaped \/ ~StringBody(cs, i + 2).ok
              THEN ParseFails
              ELSE Parsed(StringBody(cs, i + 2).pos,
                          Str(<<Unescaped[cs[i + 1]]>> \o StringBody(cs, i + 2).v.s))
    ELSE IF ~StringBody(cs, i + 1).ok THEN ParseFails
    ELSE Parsed(StringBody(cs, i + 1).pos, Str(<<cs[i]>> \o StringBody(cs, i + 1).v.s))

\* length of the run of digits that starts at index i
RECURSIVE DigitRun(_, _)
DigitRun(cs, i) == IF i <= Len(cs) /\ IsDigit(cs[i]) THEN 1 + DigitRun(cs, i + 1) ELSE 0

\* index of the first character at or after i that is no white space
SkipWs(cs, i) == i + WsRun(cs, i)

\* the strings of an array of strings from index i, behind "[" or ","
RECURSIVE StringItems(_, _)
StringItems(cs, i) ==
    LET item == StringBody(cs, i + 1)
        next == SkipWs(cs, item.pos)
        more == StringItems(cs, SkipWs(cs, next + 1))
    IN  IF At(cs, i) # "\"" \/ ~item.ok THEN ParseFails
        ELSE IF At(cs, next) = "]" THEN Parsed(next + 1, Arr(<<item.v.s>>))
        ELSE IF At(cs, next) # "," \/ ~more.ok THEN ParseFails
        ELSE Parsed(more.pos, Arr(<<item.v.s>> \o more.v.a))

Literal(name) == [t |-> name, s |-> <<>>, n |-> 0, a |-> <<>>]

\* the value that starts at index i
ParseValue(cs, i) ==
    IF At(cs, i) = "\"" THEN StringBody(cs, i + 1)
    ELSE IF IsDigit(At(cs, i))
         THEN IF cs[i] = "0" /\ DigitRun(cs, i) > 1 THEN ParseFails
              ELSE Parsed(i + DigitRun(cs, i),
                          Num(DecimalValue(SubSeq(cs, i, i + DigitRun(cs, i) - 1))))
    ELSE IF At(cs, i) = "["
         THEN IF At(cs, SkipWs(cs, i + 1)) = "]"
              THEN Parsed(SkipWs(cs, i + 1) + 1, Arr(<<>>))
              ELSE StringItems(cs, SkipWs(cs, i + 1))
    ELSE IF StartsWith(SubSeq(cs, i, Len(cs)), <<"t", "r", "u", "e">>)
         THEN Parsed(i + 4, Literal("true"))
    ELSE IF StartsWith(SubSeq(cs, i, Len(cs)), <<"f", "a", "l", "s", "e">>)
         THEN Parsed(i + 5, Literal("false"))
    ELSE IF StartsWith(SubSeq(cs, i, Len(cs)), <<"n", "u", "l", "l">>)
         THEN Parsed(i + 4, Literal("null"))
    ELSE ParseFails

\* the characters of the property names the extractor reads
KeyText ==
    [title |-> <<"t", "i", "t", "l", "e">>, Title |-> <<"T", "i", "t", "l", "e">>,
     description |-> <<"d", "e", "s", "c", "r", "i", "p", "t", "i", "o", "n">>,
     Description |-> <<"D", "e", "s", "c", "r", "i", "p", "t", "i", "o", "n">>,
     tags |-> <<"t", "a", "g", "s">>, Tags |-> <<"T", "a", "g", "s">>,
     startTime |-> <<"s", "t", "a", "r", "t", "T", "i", "m", "e">>,
     start |-> <<"s", "t", "a", "r", "t">>,
     StartTime |-> <<"S", "t", "a", "r", "t", "T", "i", "m", "e">>,
     endTime |-> <<"e", "n", "d", "T", "i", "m", "e">>, end |-> <<"e", "n", "d">>,
     EndTime |-> <<"E", "n", "d", "T", "i", "m", "e">>]

\* o with the property named by the characters key set to val; a property
\* the extractor does not read is left out
WithProperty(o, key, val) ==
    IF \E k \in DOMAIN KeyText : KeyText[k] = key
    THEN [o EXCEPT ![CHOOSE k \in DOMAIN KeyText : KeyText[k] = key] = val]
    ELSE o

\* the members of an object from index i, behind "{" or ",", added to o
RECURSIVE Members(_, _, _)
Members(cs, i, o) ==
    LET key == StringBody(cs, i + 1)
        colon == SkipWs(cs, key.pos)
        val == ParseValue(cs, SkipWs(cs, colon + 1))
        next == SkipWs(cs, val.pos)
    IN  IF At(cs, i) # "\"" \/ ~key.ok \/ At(cs, colon) # ":" \/ ~val.ok THEN ParseFails
        ELSE IF At(cs, next) = "}" THEN Parsed(next + 1, WithProperty(o, key.v.s, val.v))
        ELSE IF At(cs, next) # "," THEN ParseFails
        ELSE Members(cs, SkipWs(cs, next + 1), WithProperty(o, key.v.s, val.v))

\* the parsed top-level array: its objects, or its strings
EmptyArray == [kind |-> "objects", objs |-> <<>>, strs |-> <<>>]
WithElement(arr, e) ==
    IF e.t = "str"
    THEN [kind |-> IF arr.objs = <<>> THEN "strings" ELSE "mixed",
          objs |-> arr.objs, strs |-> Append(arr.strs, e.s)]
    ELSE IF e.t = "obj"
    THEN [kind |-> IF arr.strs = <<>> THEN "objects" ELSE "mixed",
          objs |-> Append(arr.objs, e.o), strs |-> arr.strs]
    ELSE [kind |-> "mixed", objs |-> arr.objs, strs |-> arr.strs]

\* the elements of the top-level array from index i, behind "[" or ","
RECURSIVE Elements(_, _, _)
Elements(cs, i, arr) ==
    LET obj == IF At(cs, SkipWs(cs, i + 1)) = "}"
               THEN Parsed(SkipWs(cs, i + 1) + 1, NoKeys)
               ELSE Members(cs, SkipWs(cs, i + 1), NoKeys)
        val == ParseValue(cs, i)
        ok == IF At(cs, i) = "{" THEN obj.ok ELSE val.ok
        pos == IF At(cs, i) = "{" THEN obj.pos ELSE val.pos
        e == IF At(cs, i) = "{" THEN [t |-> "obj", o |-> obj.v, s |-> <<>>]
             ELSE [t |-> val.v.t, o |-> NoKeys, s |-> val.v.s]
        next == SkipWs(cs, pos)
    IN  IF ~ok THEN ParseFails
        ELSE IF At(cs, next) = "]" THEN Parsed(next + 1, WithElement(arr, e))
        ELSE IF At(cs, next) # "," THEN ParseFails
        ELSE Elements(cs, SkipWs(cs, next + 1), WithElement(arr, e))

\* JSON.parse(text) for a text that holds an array: the array, or a
\* SyntaxError when the text is no JSON
JSONparse(text) ==
    LET open == SkipWs(text, 1)
        first == SkipWs(text, open + 1)
        arr == IF At(text, first) = "]" THEN Parsed(first + 1, EmptyArray)
               ELSE Elements(text, first, EmptyArray)
    IN  IF At(text, open) # "[" \/ ~arr.ok \/ SkipWs(text, arr.pos) <= Len(text)
        THEN [ok |-> FALSE, kind |-> "none", objs |-> <<>>, strs |-> <<>>]
        ELSE [ok |-> TRUE, kind |-> arr.v.kind, objs |-> arr.v.objs, strs |-> arr.v.strs]

\* --------------------------------------------- the text a backend answers
\* a way of writing an array of objects down
Compact == [name |-> "compact", quote |-> "\"", keysQuoted |-> TRUE,
            colon |-> <<":">>, comma |-> <<",">>, trailing |-> <<>>]
\* one space behind every colon and comma, as JSON is usually written
Spaced == [name |-> "spaced", quote |-> "\"", keysQuoted |-> TRUE,
           colon |-> <<":", " ">>, comma |-> <<",", " ">>, trailing |-> <<>>]
\* no JSON: single quotes, bare property names, trailing commas
Loose == [name |-> "loose", quote |-> "'", keysQuoted |-> FALSE,
          colon |-> <<":">>, comma |-> <<",">>, trailing |-> <<",">>]
Layouts == {Compact, Spaced, Loose}

RECURSIVE JoinWith(_, _)
JoinWith(parts, sep) ==
    IF parts = <<>> THEN <<>>
    ELSE IF Len(parts) = 1 THEN parts[1]
    ELSE parts[1] \o sep \o JoinWith(Tail(parts), sep)

Quoted(cs, q) == <<q>> \o cs \o <<q>>

RenderValue(v, lay) ==
    IF v.t = "str" THEN Quoted(v.s, lay.quote)
    ELSE IF v.t = "num" THEN ToDigits(v.n)
    ELSE <<"[">> \o JoinWith([i \in 1..Len(v.a) |-> Quoted(v.a[i], lay.quote)], lay.comma)
         \o <<"]">>

RenderMember(o, k, lay) ==
    (IF lay.keysQuoted THEN Quoted(KeyText[k], lay.quote) ELSE KeyText[k])
    \o lay.colon \o RenderValue(o[k], lay)

RenderObject(o, lay) ==
    <<"{">>
    \o JoinWith([i \in 1..Len(PresentKeys(o)) |-> RenderMember(o, PresentKeys(o)[i], lay)],
                lay.comma)
    \o lay.trailing \o <<"}">>

RenderArray(objs, lay) ==
    <<"[">> \o JoinWith([i \in 1..Len(objs) |-> RenderObject(objs[i], lay)], lay.comma)
    \o (IF objs = <<>> THEN <<>> ELSE lay.trailing) \o <<"]">>

\* what surrounds the array of clips in an answer
DecoyStrings == <<"[", "\"", "x", "\"", "]", " ">>
DecoyObject == RenderArray(<<[NoKeys EXCEPT !.title = Str(<<"x">>)]>>, Compact) \o <<" ">>
\* an earlier, longer attempt whose first object has no title
FailedAttempt == RenderArray(<<DraftNoTitle, DraftGood>>, Compact) \o <<" ">>
Wrappers ==
    {"bare", "fenced", "after a string array", "after an example", "after a failed attempt",
     "refusal"}
DecoyWrappers == {"after a string array", "after an example"}
Wrapped(w, text) ==
    CASE w = "bare" -> text
      [] w = "fenced" -> FenceJson \o <<"\n">> \o text \o <<"\n">> \o Fence
      [] w = "after a string array" -> DecoyStrings \o text
      [] w = "after an example" -> DecoyObject \o text
      [] w = "after a failed attempt" -> FailedAttempt \o text
      [] w = "refusal" -> <<"n", "o">>

Titled(ti) == [DraftGood EXCEPT !.title = Str(ti)]
DraftTagged == [DraftGood EXCEPT !.tags = Arr(<<<<"t">>>>)]
\* the arrays of clips an answer is written from
ClipArrays ==
    {<<>>, <<DraftGood>>, <<DraftGood, DraftAlias>>, <<DraftNoTitle, DraftGood>>,
     <<DraftTagged>>, <<DraftNumeric>>,
     <<Titled(<<"I", "'", "m">>)>>, <<Titled(<<"a", ":", "b">>)>>,
     <<Titled(<<"a", " ", " ", "b">>)>>}

\* ------------------------------ extractValidClipsArrayFromGemini, stepwise
Candidate(text) == [len |-> Len(text), text |-> text]

ScanOf(objs, lay, w) ==
    [phase |-> "response", arrays |-> objs, layout |-> lay.name, wrapper |-> w,
     arrayText |-> RenderArray(objs, lay), text |-> Wrapped(w, RenderArray(objs, lay)),
     sortedArrays |-> <<>>, i |-> 0, cleaned |-> <<>>, replaces |-> 0,
     result |-> Thrown("none")]

TextInit ==
    /\ Dormant
    /\ conv = NoConversion
    /\ store = NoStore
    /\ pair = NoPair
    /\ app = NoApp
    /\ db = NoDb
    /\ \E objs \in ClipArrays, lay \in Layouts, w \in Wrappers : scan = ScanOf(objs, lay, w)

\* lines 51-62
RemoveMarkdown ==
    /\ scan.phase = "response"
    /\ \E text \in {scan.text} :
          scan' = [scan EXCEPT !.phase = "stripped", !.text = stripMarkdown(text)]
    /\ UNCHANGED <<vars, conv, store, pair, app, db>>

\* lines 66-78
FindArrays ==
    /\ scan.phase = "stripped"
    /\ \E allMatches \in {arrayMatches(scan.text)} :
           scan' = IF allMatches = <<>>
                   THEN [scan EXCEPT !.phase = "thrown",
                                     !.result = Thrown("No JSON array found")]
                   ELSE \* line 82: jsonStr = sortedArrays[0]
                        [scan EXCEPT
                            !.phase = "candidate", !.i = 1, !.replaces = 0,
                            !.sortedArrays =
                                SortByLength([k \in 1..Len(allMatches) |->
                                                 Candidate(allMatches[k])]),
                            !.cleaned =
                                SortByLength([k \in 1..Len(allMatches) |->
                                                 Candidate(allMatches[k])])[1].text]
    /\ UNCHANGED <<vars, conv, store, pair, app, db>>

\* lines 87-116: the next replace of the cleaning sequence, on the text
\* the replaces before it have left
Replace ==
    /\ scan.phase = "candidate"
    /\ scan.replaces < Len(CleaningSequence)
    /\ \E text \in {scan.cleaned} :
          scan' = [scan EXCEPT
                      !.replaces = scan.replaces + 1,
                      !.cleaned = ReplaceAll(CleaningSequence[scan.replaces + 1], text)]
    /\ UNCHANGED <<vars, conv, store, pair, app, db>>

ParseJsonFirstFailureThrows ==
    /\ scan.phase = "candidate"
    /\ scan.replaces = Len(CleaningSequence)
    /\ \E parsed \in {JSONparse(scan.cleaned)} :
           scan' =
             IF parsed.ok /\ FirstClipOk(parsed)
             THEN [scan EXCEPT
                      !.phase = "returned",
                      !.result = Returned([k \in 1..Len(parsed.objs) |->
                                              NormalizeService(parsed.objs[k])])]
             ELSE [scan EXCEPT !.phase = "thrown",
                               !.result = Thrown("No valid clip array found in response")]
    /\ UNCHANGED <<vars, conv, store, pair, app, db>>

\* lines 121-157
ParseJson ==
    /\ scan.phase = "candidate"
    /\ scan.replaces = Len(CleaningSequence)
    /\ \E parsed \in {JSONparse(scan.cleaned)} :
           scan' =
             IF parsed.ok /\ FirstClipOk(parsed)
             THEN [scan EXCEPT
                      !.phase = "returned",
                      !.result = Returned([k \in 1..Len(parsed.objs) |->
                                              NormalizeService(parsed.objs[k])])]
             ELSE IF scan.i < Len(scan.sortedArrays)
             THEN \* line 82: jsonStr = sortedArrays[i]
                  [scan EXCEPT !.i = scan.i + 1, !.replaces = 0,
                               !.cleaned = scan.sortedArrays[scan.i + 1].text]
             ELSE [scan EXCEPT !.phase = "thrown",
                               !.result = Thrown("No valid clip array found in response")]
    /\ UNCHANGED <<vars, conv, store, pair, app, db>>

TextNext == RemoveMarkdown \/ FindArrays \/ Replace \/ ParseJson

TextSpec == TextInit /\ [][TextNext]_<<vars, libs>>

\* ------------------------------------------------ clipService: localStorage
\* a stored clip: the fields the service reads, and its title
StoredClip(v, st, ti) == [videoId |-> v, startTime |-> st, title |-> ti]

\* two clips of one video with the same start, a later clip of that video,
\* and a clip of another video
StoredClips ==
    {StoredClip(<<"a">>, T0100, <<"A">>), StoredClip(<<"a">>, T0100, <<"B">>),
     StoredClip(<<"a">>, T0200, <<"A">>), StoredClip(<<"b">>, T0100, <<"A">>)}

NewClipLists == {<<>>} \cup SeqsUpTo(StoredClips, MaxNew)

\* the email of a visitor who is not logged in, and of a user
Emails == {<<>>, <<"u">>}

\* `${c.videoId}-${c.startTime}`
ClipKey(c) == c.videoId \o <<"-">> \o c.startTime

\* getClips, lines 10-24: the stored array, [] for an empty email, for no
\* item, and for an item that is no JSON array
getClips(item, email) ==
    IF email = <<>> THEN <<>>
    ELSE IF item.kind = "array" THEN item.clips
    ELSE <<>>

\* setItem throws when the item outgrows the storage
QuotaExceeded(cs) == Len(cs) > MaxStored

\* every new clip is appended, stored or not
saveClipsAppendAll(item, newClips, email) ==
    IF email = <<>> THEN item
    ELSE IF QuotaExceeded(getClips(item, email) \o newClips) THEN item
    ELSE Stored(getClips(item, email) \o newClips)

\* saveClips, lines 32-43: the item of the user after the call
saveClips(item, newClips, email) ==
    IF email = <<>> THEN item
    ELSE LET existingClips == getClips(item, email)
             existingUrls == {ClipKey(existingClips[i]) : i \in 1..Len(existingClips)}
             uniqueNewClips == SelectSeq(newClips, LAMBDA c : ClipKey(c) \notin existingUrls)
             allClips == existingClips \o uniqueNewClips
         IN  IF QuotaExceeded(allClips) THEN item ELSE Stored(allClips)

StoreInit ==
    /\ Dormant
    /\ conv = NoConversion
    /\ scan = NoScan
    /\ pair = NoPair
    /\ app = NoApp
    /\ db = NoDb
    /\ \E i \in {Absent, Garbage} :
          store = [item |-> i, op |-> "none", newClips |-> <<>>, email |-> <<>>]

SaveClips ==
    /\ \E newClips \in NewClipLists, email \in Emails :
          store' = [item |-> saveClips(store.item, newClips, email), op |-> "saveClips",
                    newClips |-> newClips, email |-> email]
    /\ UNCHANGED <<vars, conv, scan, pair, app, db>>

\* clearClips, lines 50-57
ClearClips ==
    /\ \E email \in Emails :
          store' = [item |-> IF email = <<>> THEN store.item ELSE Absent,
                    op |-> "clearClips", newClips |-> <<>>, email |-> email]
    /\ UNCHANGED <<vars, conv, scan, pair, app, db>>

StoreNext == SaveClips \/ ClearClips

StoreSpec == StoreInit /\ [][StoreNext]_<<vars, libs>>

\* ------------------------------------- two invocations in one process
\* Two calls of the service's generateClipsFromTranscript run in one
\* JavaScript process.  Each has its own prompt, attempts and lastError
\* (locals of the call); the module holds one variable, ai (line 8), that
\* getGeminiClient fills the first time it finds a key.  A continuation
\* runs to its next await without interruption, so a step of the model is
\* one such run.
Invocations == {1, 2}

\* what the backend answers in these runs: nothing, one clip, two clips
PairResponses ==
    {Response(TRUE, <<>>),
     Response(FALSE, <<ObjArray("valid", <<DraftGood>>)>>),
     Response(FALSE, <<ObjArray("valid", <<DraftGood, DraftNoTitle>>)>>)}

\* how a backend call ended: rejected with an error, or resolved
Rejected(e) == [error |-> e, response |-> NoResponse]
Resolved(r) == [error |-> "none", response |-> r]

Pending == [kind |-> "pending", clips |-> <<>>, message |-> "none"]
ReturnedClips(cs) == [kind |-> "returned", clips |-> cs, message |-> "none"]
\* lines 392-394: the error thrown behind the loop
ThrownExhausted(msg) == [kind |-> "thrown", clips |-> <<>>, message |-> msg]

Invocation(segs) ==
    [segs |-> segs, pc |-> "Loop", attempts |-> 0, lastError |-> "null",
     settled |-> <<>>, outcome |-> Pending]

PairInit ==
    /\ Dormant
    /\ conv = NoConversion
    /\ store = NoStore
    /\ scan = NoScan
    /\ app = NoApp
    /\ db = NoDb
    /\ \E key \in BOOLEAN, s1 \in SegmentLists \ {<<>>}, s2 \in SegmentLists \ {<<>>} :
          pair = [phase |-> "run", key |-> key, ai |-> FALSE,
                  inv |-> <<Invocation(s1), Invocation(s2)>>]

\* lines 369-387 and 391-395: the catch clause takes the error; after the
\* last attempt the loop is left and the error is thrown, else the delay
\* is awaited
Failed(inv, msg) ==
    [inv EXCEPT !.lastError = msg,
                !.pc = IF inv.attempts >= MAX_ATTEMPTS_SERVICE THEN "ExhaustedFailed"
                       ELSE "Delay",
                !.outcome = IF inv.attempts >= MAX_ATTEMPTS_SERVICE
                            THEN ThrownExhausted(msg) ELSE Pending]

\* a module-level lock: getGeminiClient throws while the other invocation
\* has a call in flight
PairInvokeLocked(k) ==
    LET inv == [pair.inv[k] EXCEPT !.attempts = @ + 1]
    IN  /\ pair.phase = "run"
        /\ pair.inv[k].pc = "Loop"
        /\ pair.inv[k].attempts < MAX_ATTEMPTS_SERVICE
        /\ IF ~pair.key
           THEN pair' = [pair EXCEPT
                    !.inv[k] = Failed(inv, "GEMINI_API_KEY environment variable is not set")]
           ELSE IF \E o \in Invocations \ {k} : pair.inv[o].pc = "Invoking"
           THEN pair' = [pair EXCEPT !.inv[k] = Failed(inv, "client is busy")]
           ELSE pair' = [pair EXCEPT !.ai = TRUE, !.inv[k] = [inv EXCEPT !.pc = "Invoking"]]
        /\ UNCHANGED <<vars, conv, store, scan, app, db>>

\* lines 322-333 with getGeminiClient, lines 10-25: count the attempt, read
\* the key (throw without one), create the client when ai is null, issue
\* the call
PairInvoke(k) ==
    LET inv == [pair.inv[k] EXCEPT !.attempts = @ + 1]
    IN  /\ pair.phase = "run"
        /\ pair.inv[k].pc = "Loop"
        /\ pair.inv[k].attempts < MAX_ATTEMPTS_SERVICE
        /\ IF ~pair.key
           THEN pair' = [pair EXCEPT
                    !.inv[k] = Failed(inv, "GEMINI_API_KEY environment variable is not set")]
           ELSE pair' = [pair EXCEPT !.ai = TRUE, !.inv[k] = [inv EXCEPT !.pc = "Invoking"]]
        /\ UNCHANGED <<vars, conv, store, scan, app, db>>

\* generateContent rejects; the catch clause runs
PairRejects(k) ==
    /\ pair.phase = "run"
    /\ pair.inv[k].pc = "Invoking"
    /\ \E e \in BackendErrors :
          pair' = [pair EXCEPT
              !.inv[k] = Failed([pair.inv[k] EXCEPT !.settled = Append(@, Rejected(e))], e)]
    /\ UNCHANGED <<vars, conv, store, scan, app, db>>

\* generateContent resolves; lines 341-367 run: return the clips, or catch
\* what the extractor or the alignment throws
PairResolves(k) ==
    /\ pair.phase = "run"
    /\ pair.inv[k].pc = "Invoking"
    /\ \E r \in PairResponses :
          LET inv == [pair.inv[k] EXCEPT !.settled = Append(@, Resolved(r))]
              a == AttemptTable["service"][inv.segs][r]
          IN  pair' = [pair EXCEPT
                  !.inv[k] = IF a.ok
                             THEN [inv EXCEPT !.pc = "Succeeded",
                                              !.outcome = ReturnedClips(a.clips)]
                             ELSE Failed(inv, a.error)]
    /\ UNCHANGED <<vars, conv, store, scan, app, db>>

\* line 387: the delay is over and the loop goes round
PairTimerFires(k) ==
    /\ pair.phase = "run"
    /\ pair.inv[k].pc = "Delay"
    /\ pair' = [pair EXCEPT !.inv[k].pc = "Loop"]
    /\ UNCHANGED <<vars, conv, store, scan, app, db>>

PairNext ==
    \E k \in Invocations :
        PairInvoke(k) \/ PairRejects(k) \/ PairResolves(k) \/ PairTimerFires(k)

PairSpec == PairInit /\ [][PairNext]_<<vars, libs>>

\* lines 315-396 as a function: what one invocation, alone in its process,
\* makes of the backend's answers
RECURSIVE RunAlone(_, _, _, _, _)
RunAlone(key, segs, settled, n, last) ==
    IF n >= MAX_ATTEMPTS_SERVICE THEN ThrownExhausted(last)
    ELSE IF ~key
    THEN RunAlone(key, segs, settled, n + 1,
                  "GEMINI_API_KEY environment variable is not set")
    ELSE IF settled = <<>> THEN Pending
    ELSE IF Head(settled).error # "none"
    THEN RunAlone(key, segs, Tail(settled), n + 1, Head(settled).error)
    ELSE IF AttemptTable["service"][segs][Head(settled).response].ok
    THEN ReturnedClips(AttemptTable["service"][segs][Head(settled).response].clips)
    ELSE RunAlone(key, segs, Tail(settled), n + 1,
                  AttemptTable["service"][segs][Head(settled).response].error)

\* --------------------------------------------- handleGenerateClips, the page
\* AuthContext: what a plan allows in a month
PLAN_LIMITS ==
    [free |-> [videos |-> 3, videoDuration |-> 60],
     casual |-> [videos |-> 15, videoDuration |-> 180],
     mastermind |-> [videos |-> 35, videoDuration |-> 480]]

\* the requests of one session
MaxRequests == 2

\* Math.ceil(duration / 60) for a duration in whole seconds
Ceil60(duration) == (duration + 59) \div 60

\* what getTranscriptAndDuration reports as the duration, in seconds, of a
\* video for a user of plan p: short ones, and one at and one just over
\* the plan's limit
Durations(p) ==
    {59, 60, 61, PLAN_LIMITS[p].videoDuration * 60, PLAN_LIMITS[p].videoDuration * 60 + 1}

\* the videos a user of plan p has processed this month when the page opens
UsageStarts(p) == {0, PLAN_LIMITS[p].videos - 1, PLAN_LIMITS[p].videos}

\* The page: the user of the AuthContext, the state of the App component
\* and, of the request under way or just over, the calls it made (calls of
\* generateClipsFromTranscript, records of recordUsage), the usage it
\* found, the minutes of its video and how it ended.
AppInit ==
    /\ Dormant
    /\ conv = NoConversion
    /\ store = NoStore
    /\ scan = NoScan
    /\ pair = NoPair
    /\ db = NoDb
    /\ \E loggedIn \in BOOLEAN, admin \in BOOLEAN, p \in Plans, url \in BOOLEAN :
       \E videos \in UsageStarts(p) :
          app = [phase |-> "run", pc |-> "Idle",
                 user |-> [loggedIn |-> loggedIn, admin |-> loggedIn /\ admin, plan |-> p,
                           usage |-> [videosProcessed |-> videos, minutesProcessed |-> 0]],
                 currentVideoId |-> url, isLoading |-> FALSE, error |-> "null",
                 authModalOpen |-> FALSE, pricingModalOpen |-> FALSE, clips |-> FALSE,
                 requests |-> 0, calls |-> 0, records |-> 0,
                 found |-> [videosProcessed |-> videos, minutesProcessed |-> 0],
                 videoMinutes |-> 0, ended |-> "none"]

\* part_008 lines 93-111: the form is submitted (its button is disabled
\* while isLoading); the handler runs to its first await
Submit ==
    /\ app.phase = "run"
    /\ app.pc = "Idle"
    /\ app.requests < MaxRequests
    /\ LET began == [app EXCEPT !.requests = @ + 1, !.calls = 0, !.records = 0,
                                !.found = app.user.usage, !.videoMinutes = 0]
       IN  app' = IF ~app.user.loggedIn
                  THEN [began EXCEPT !.authModalOpen = TRUE, !.ended = "login"]
                  ELSE IF ~app.currentVideoId
                  THEN [began EXCEPT !.error = "Please enter a valid YouTube URL.",
                                     !.ended = "no video"]
                  ELSE [began EXCEPT !.isLoading = TRUE, !.error = "null",
                                     !.pc = "Transcript", !.ended = "none"]
    /\ UNCHANGED <<vars, conv, store, scan, pair, db>>

\* lines 111 and 185-193: getTranscriptAndDuration rejects; catch, finally
TranscriptFails ==
    /\ app.phase = "run"
    /\ app.pc = "Transcript"
    /\ app' = [app EXCEPT !.error = "An error occurred", !.isLoading = FALSE,
                          !.pc = "Idle", !.ended = "transcript failed"]
    /\ UNCHANGED <<vars, conv, store, scan, pair, db>>

\* the video count test reads > where the source reads >=
TranscriptArrivesCountOffByOne ==
    /\ app.phase = "run"
    /\ app.pc = "Transcript"
    /\ \E duration \in Durations(app.user.plan) :
          LET videoMinutes == Ceil60(duration)
              limits == PLAN_LIMITS[app.user.plan]
              got == [app EXCEPT !.videoMinutes = videoMinutes]
          IN  app' = IF ~app.user.admin /\ app.user.usage.videosProcessed > limits.videos
                     THEN [got EXCEPT !.error = "monthly limit",
                                      !.pricingModalOpen = app.user.plan # "mastermind",
                                      !.isLoading = FALSE, !.pc = "Idle", !.ended = "limit"]
                     ELSE IF ~app.user.admin /\ videoMinutes > limits.videoDuration
                     THEN [got EXCEPT !.error = "duration limit", !.pricingModalOpen = TRUE,
                                      !.isLoading = FALSE, !.pc = "Idle", !.ended = "limit"]
                     ELSE [got EXCEPT !.calls = @ + 1, !.pc = "Generating"]
    /\ UNCHANGED <<vars, conv, store, scan, pair, db>>

\* lines 111-168: the transcript and the duration arrive; unless the user
\* is the admin, the request is refused when the month's videos are used up
\* or the video is longer than the plan allows (error, isLoading false,
\* return; the finally clause sets isLoading false once more); otherwise
\* generateClipsFromTranscript is called
TranscriptArrives ==
    /\ app.phase = "run"
    /\ app.pc = "Transcript"
    /\ \E duration \in Durations(app.user.plan) :
          LET videoMinutes == Ceil60(duration)
              limits == PLAN_LIMITS[app.user.plan]
              got == [app EXCEPT !.videoMinutes = videoMinutes]
          IN  app' = IF ~app.user.admin /\ app.user.usage.videosProcessed >= limits.videos
                     THEN [got EXCEPT !.error = "monthly limit",
                                      !.pricingModalOpen = app.user.plan # "mastermind",
                                      !.isLoading = FALSE, !.pc = "Idle", !.ended = "limit"]
                     ELSE IF ~app.user.admin /\ videoMinutes > limits.videoDuration
                     THEN [got EXCEPT !.error = "duration limit", !.pricingModalOpen = TRUE,
                                      !.isLoading = FALSE, !.pc = "Idle", !.ended = "limit"]
                     ELSE [got EXCEPT !.calls = @ + 1, !.pc = "Generating"]
    /\ UNCHANGED <<vars, conv, store, scan, pair, db>>

\* part_018 lines 242-252: recordUsage(minutes)
recordUsage(user, minutes) ==
    [user EXCEPT !.usage.videosProcessed = @ + 1, !.usage.minutesProcessed = @ + minutes]

\* the usage is recorded in the finally clause, whatever happened
GenerationFailsAndRecords ==
    /\ app.phase = "run"
    /\ app.pc = "Generating"
    /\ app' = [app EXCEPT !.error = "An error occurred", !.isLoading = FALSE,
                          !.user = recordUsage(app.user, app.videoMinutes),
                          !.records = @ + 1,
                          !.pc = "Idle", !.ended = "generation failed"]
    /\ UNCHANGED <<vars, conv, store, scan, pair, db>>

\* lines 168 and 185-193: generateClipsFromTranscript throws (its retries
\* are exhausted); catch, finally
GenerationFails ==
    /\ app.phase = "run"
    /\ app.pc = "Generating"
    /\ app' = [app EXCEPT !.error = "An error occurred", !.isLoading = FALSE,
                          !.pc = "Idle", !.ended = "generation failed"]
    /\ UNCHANGED <<vars, conv, store, scan, pair, db>>

\* lines 168-183 and 191-193: generateClipsFromTranscript returns; the
\* usage is recorded, the clips are shown; finally
GenerationSucceeds ==
    /\ app.phase = "run"
    /\ app.pc = "Generating"
    /\ app' = [app EXCEPT !.user = recordUsage(app.user, app.videoMinutes),
                          !.records = @ + 1, !.clips = TRUE, !.isLoading = FALSE,
                          !.pc = "Idle", !.ended = "done"]
    /\ UNCHANGED <<vars, conv, store, scan, pair, db>>

AppNext ==
    Submit \/ TranscriptFails \/ TranscriptArrives \/ GenerationFails \/ GenerationSucceeds

AppSpec == AppInit /\ [][AppNext]_<<vars, libs>>

\* ------------------------------------------- AuthContext: recordUsage
\* the calls of recordUsage in one month
MaxCalls == 3

Usage(v, m) == [videosProcessed |-> v, minutesProcessed |-> m]

\* The AuthContext of one month: usage is the user state of React (what
\* setUser has made of it), rendered is the user of the last render, which
\* is the user a recordUsage closure reads, row is the user's row of
\* user_usage, pending holds the upserts on their way, and calls and
\* minutes count what was recorded.
DbInit ==
    /\ Dormant
    /\ conv = NoConversion
    /\ store = NoStore
    /\ scan = NoScan
    /\ pair = NoPair
    /\ app = NoApp
    /\ \E signedIn \in BOOLEAN, admin \in BOOLEAN, v \in {0, 2} :
          db = [phase |-> "run", supabaseUser |-> signedIn, admin |-> signedIn /\ admin,
                initial |-> Usage(v, 10 * v), usage |-> Usage(v, 10 * v),
                rendered |-> Usage(v, 10 * v), row |-> Usage(v, 10 * v),
                pending |-> <<>>, calls |-> 0, minutes |-> 0]

\* lines 353-388: recordUsage(minutes) up to its await: return without a
\* user or for the admin; update the state with setUser from the previous
\* state; send the upsert with the counters of the rendered user plus this
\* video
RecordUsage ==
    /\ db.phase = "run"
    /\ db.calls < MaxCalls
    /\ \E minutes \in {1, 2} :
          db' = IF ~db.supabaseUser \/ db.admin
                THEN [db EXCEPT !.calls = @ + 1]
                ELSE [db EXCEPT
                        !.calls = @ + 1,
                        !.minutes = @ + minutes,
                        !.usage = Usage(db.usage.videosProcessed + 1,
                                        db.usage.minutesProcessed + minutes),
                        !.pending = Append(@, Usage(db.rendered.videosProcessed + 1,
                                                    db.rendered.minutesProcessed + minutes))]
    /\ UNCHANGED <<vars, conv, store, scan, pair, app>>

\* React renders the provider with the state; the closures of this render
\* read the new user
Render ==
    /\ db.phase = "run"
    /\ db.rendered # db.usage
    /\ db' = [db EXCEPT !.rendered = db.usage]
    /\ UNCHANGED <<vars, conv, store, scan, pair, app>>

\* lines 377-393: an upsert arrives and succeeds: on conflict of user_id
\* and month the row takes the counters sent
UpsertLands ==
    /\ db.phase = "run"
    /\ \E i \in 1..Len(db.pending) :
          db' = [db EXCEPT !.row = db.pending[i],
                           !.pending = SubSeq(@, 1, i - 1) \o SubSeq(@, i + 1, Len(@))]
    /\ UNCHANGED <<vars, conv, store, scan, pair, app>>

DbNext == RecordUsage \/ Render \/ UpsertLands

DbSpec == DbInit /\ [][DbNext]_<<vars, libs>>

\* ================================================================ claims
Terminal == pc \in {"Succeeded", "ExhaustedFailed"}

\* C1: every invocation issues at most MAX_ATTEMPTS backend calls, throws
\* only once the attempt counter has reached MAX_ATTEMPTS, never goes back
\* to another attempt once a failed attempt has left the counter at
\* MAX_ATTEMPTS, and always ends Succeeded or ExhaustedFailed.
C1_BoundedAndTerminates ==
    /\ [](calls <= MAX_ATTEMPTS /\ attempts <= MAX_ATTEMPTS)
    /\ [](pc = "ExhaustedFailed" => attempts = MAX_ATTEMPTS)
    /\ [][pc = "RetryPending" /\ attempts >= MAX_ATTEMPTS => pc' = "ExhaustedFailed"]_vars
    /\ <>Terminal

\* three backend calls, all failed, then the throw
C1_Witness ==
    pc = "ExhaustedFailed" /\ variant = "service" /\ calls = MAX_ATTEMPTS_SERVICE

\* C2: from Extracting, an extraction that yields a non-empty sequence of
\* records with their transcripts goes to Succeeded with that sequence, and
\* every other extraction outcome goes to RetryPending; Succeeded ends the
\* loop: no backend call is in flight, no timer is pending, and no step
\* (no further call, no delay) follows it.
C2_ExtractingTransitions ==
    /\ [][pc = "Extracting" =>
            IF attempt(variant, response, transcriptSegments).ok
            THEN /\ pc' = "Succeeded"
                 /\ result' = attempt(variant, response, transcriptSegments).clips
                 /\ result' # <<>>
            ELSE pc' = "RetryPending"]_vars
    /\ [](pc = "Succeeded" => result # <<>> /\ inFlight = 0 /\ timer = 0)
    /\ [][pc = "Succeeded" => UNCHANGED vars]_vars

\* a success on a later attempt, after an extraction that failed
C2_Witness ==
    /\ pc = "Succeeded"
    /\ failures # <<>>
    /\ failures[Len(failures)] = "UNRECOVERABLE_JSON_FALLBACK_TRIGGERED"

AfterFailedAttempt == {"RetryPending", "Delay", "Loop", "ExhaustedFailed"}
NoCandidateErrors == {"No JSON array found", "No valid clip array found in response"}

\* C3 as stated: the extractor is never run on an attempt whose backend
\* call was rejected or returned an empty payload.
C3_NoExtractionOnBackendFailure ==
    outcome \in {"error", "empty"} => ~extractorRan /\ pc # "Extracting"

\* C3 as amended: a rejected backend call (timeout, non-2xx) goes directly
\* to RetryPending and the extractor is not run on that attempt; a response
\* without text is handed to the extractor, which finds no candidate and
\* throws, and the attempt ends in RetryPending as well.
C3_RejectionSkipsExtraction ==
    /\ outcome = "error" =>
          ~extractorRan /\ pc \in AfterFailedAttempt /\ lastError \in BackendErrors
    /\ outcome = "empty" =>
          \/ pc = "Extracting" /\ ~extractorRan
          \/ extractorRan /\ pc \in AfterFailedAttempt /\ lastError \in NoCandidateErrors

\* a rejected call, then a call that returns no text, both waiting to retry
C3_Witness ==
    /\ pc = "RetryPending"
    /\ outcome = "empty"
    /\ Len(failures) = 2
    /\ failures[1] \in BackendErrors

\* the delays waited by an invocation that failed n times
ExpectedDelays(base, n) == [i \in 1..n |-> base * Pow2(i - 1)]
BaseDelay == IF variant = "service" THEN BASE_DELAY_SERVICE ELSE DELAY_LAMBDA

C5_ExhaustedCarriesLastReason ==
    /\ [](pc = "ExhaustedFailed" =>
            /\ thrown.kind = "Failed to generate clips"
            /\ result = <<>>
            /\ thrown.attempts = attempts
            /\ thrown.attempts = Len(failures)
            /\ thrown.message = failures[Len(failures)])
    /\ [](pc # "ExhaustedFailed" => thrown = NoError)
    /\ [][pc = "ExhaustedFailed" => UNCHANGED vars]_vars

\* the last attempt failed for another reason than the first
C5_Witness ==
    /\ pc = "ExhaustedFailed"
    /\ failures[1] # failures[Len(failures)]
    /\ thrown.message = "No JSON array found"

\* C6: at most one backend call is in flight; a call is in flight exactly
\* while the invocation awaits it, and then no timer is pending and every
\* earlier attempt has settled and had its delay waited in full.
C6_SingleFlight ==
    /\ inFlight <= 1
    /\ inFlight = (IF pc = "Invoking" THEN 1 ELSE 0)
    /\ inFlight = 1 => timer = 0 /\ Len(delays) = calls - 1 /\ Len(failures) = calls - 1
    /\ calls <= Len(delays) + 1

\* the third call is in flight after the two delays
C6_Witness ==
    pc = "Invoking" /\ calls = 3 /\ Len(delays) = 2

\* C7 as stated: once the caller has given the invocation up, while a
\* delay is pending or a call is in flight, no further backend call is
\* issued and the invocation ends with a cancellation outcome, not with
\* the outcome of the loop.
C7_Cancellable ==
    /\ [][cancelled => calls' = calls]_vars
    /\ [](cancelled /\ Terminal => thrown.kind = "Cancelled")

\* the number of seconds the aligner takes a clip to start and end at
startOffsetSeconds(clip) == timeToSeconds(clip.startTime)
endOffsetSeconds(clip) == timeToSeconds(clip.endTime)

\* C8 as stated: every clip of a success ends after it starts and lasts
\* between minDurationSeconds and maxDurationSeconds.
C8_DurationWithinBounds ==
    pc = "Succeeded" =>
        \A i \in 1..Len(result) :
            /\ ~isNaN(startOffsetSeconds(result[i]))
            /\ ~isNaN(endOffsetSeconds(result[i]))
            /\ endOffsetSeconds(result[i]) > startOffsetSeconds(result[i])
            /\ endOffsetSeconds(result[i]) - startOffsetSeconds(result[i]) >= minDurationSeconds
            /\ endOffsetSeconds(result[i]) - startOffsetSeconds(result[i]) <= maxDurationSeconds

\* C9 as stated: a success holds at least one clip and at most the clip
\* limit of the caller's plan.
C9_CountWithinPolicy ==
    pc = "Succeeded" => 0 < Len(result) /\ Len(result) <= maxClipCount(plan)

\* C10 as stated: every clip of a success has a non-empty title.
C10_TitlesNonEmpty ==
    pc = "Succeeded" => \A i \in 1..Len(result) : Truthy(result[i].title)

\* the segments of segs, by index, that overlap the clip from clipStart to
\* clipEnd: they start before the clip ends and end after the clip starts
Overlapping(segs, clipStart, clipEnd) ==
    {k \in 1..Len(segs) :
        segs[k].start < clipEnd /\ segs[k].start + segs[k].duration > clipStart}

\* the texts of the segments of the index set K in segment order, joined by
\* single spaces and trimmed
MatchedText(segs, K) ==
    LET ks == SelectSeq([k \in 1..Len(segs) |-> k], LAMBDA k : k \in K)
    IN  Trim(JoinSpace([j \in 1..Len(ks) |-> segs[ks[j]].text]))

HasInvalidTimes(clip) ==
    isNaN(startOffsetSeconds(clip)) \/ isNaN(endOffsetSeconds(clip))

\* C11: every clip of a success has a transcript that is a non-empty string:
\* the sentinel for invalid timestamps when a time cannot be converted, the
\* not-found sentinel when no overlapping segment holds any text, and the
\* matched text otherwise.
C11_TranscriptAlwaysText ==
    pc = "Succeeded" =>
        \A i \in 1..Len(result) :
            LET clip == result[i]
                matched == MatchedText(transcriptSegments,
                               Overlapping(transcriptSegments, startOffsetSeconds(clip),
                                           endOffsetSeconds(clip)))
            IN  /\ clip.transcript # <<>>
                /\ clip.transcript = InvalidTimestamps <=> HasInvalidTimes(clip)
                /\ clip.transcript = NotFound <=> ~HasInvalidTimes(clip) /\ matched = <<>>
                /\ clip.transcript \notin {InvalidTimestamps, NotFound} =>
                       \A j \in 1..Len(clip.transcript) : clip.transcript[j] \in STRING

\* a success whose first clip overlaps only a blank segment and whose
\* second clip has no valid start time
C11_Witness ==
    /\ pc = "Succeeded"
    /\ Len(result) = 2
    /\ transcriptSegments # <<>>
    /\ result[1].transcript = NotFound
    /\ result[2].transcript = InvalidTimestamps

\* C12: a segment is part of a clip's transcript exactly when it starts
\* before the clip ends and ends after the clip starts: the transcript is
\* the text of those segments, and a segment that ends exactly at the
\* clip's start or starts exactly at the clip's end adds nothing to it.
C12_HalfOpenOverlap ==
    pc = "Succeeded" =>
        \A i \in 1..Len(result) :
            LET clip == result[i]
                segs == transcriptSegments
                K == Overlapping(segs, startOffsetSeconds(clip), endOffsetSeconds(clip))
                abutting == {k \in 1..Len(segs) :
                                \/ segs[k].start + segs[k].duration = startOffsetSeconds(clip)
                                \/ segs[k].start = endOffsetSeconds(clip)}
            IN  ~HasInvalidTimes(clip) =>
                    /\ clip.transcript =
                           IF MatchedText(segs, K) = <<>> THEN NotFound ELSE MatchedText(segs, K)
                    /\ K \cap abutting = {}
                    /\ \A k \in abutting : \A j \in 1..Len(clip.transcript) :
                           segs[k].text # <<" ">> => clip.transcript[j] # segs[k].text[1]

\* a clip from 60 s to 120 s between a segment that ends at 60 s and one
\* that starts at 120 s: only the segment in between is its transcript
C12_Witness ==
    /\ pc = "Succeeded"
    /\ startOffsetSeconds(result[1]) = 60
    /\ endOffsetSeconds(result[1]) = 120
    /\ \E k \in 1..Len(transcriptSegments) :
          transcriptSegments[k].start + transcriptSegments[k].duration = 60
          /\ transcriptSegments[k].text = <<"p">>
    /\ \E k \in 1..Len(transcriptSegments) :
          transcriptSegments[k].start = 120 /\ transcriptSegments[k].text = <<"r">>
    /\ result[1].transcript = <<"q">>

\* every failed attempt so far ended with the extractor finding no candidate
OnlyNoCandidateFailures ==
    \A i \in 1..Len(failures) : failures[i] \in NoCandidateErrors

\* C17: a response whose text holds no array ends its attempt with the
\* no-candidate error and without a result; while attempts remain the
\* orchestrator then issues a fresh backend call; when every attempt has
\* ended so, exactly MAX_ATTEMPTS backend calls were made and the
\* invocation throws the exhausted-retries error, which carries the
\* no-candidate message.
C17_NoBracketsExhaustsRetries ==
    /\ [][pc = "Extracting" /\ response.arrays = <<>> =>
            /\ pc' = "RetryPending"
            /\ lastError' \in NoCandidateErrors
            /\ failures' = Append(failures, lastError')
            /\ result' = <<>>]_vars
    /\ [](pc = "ExhaustedFailed" /\ OnlyNoCandidateFailures =>
            /\ calls = MAX_ATTEMPTS
            /\ Len(failures) = MAX_ATTEMPTS
            /\ thrown.kind = "Failed to generate clips"
            /\ thrown.message \in NoCandidateErrors)
    /\ (pc = "RetryPending" /\ attempts < MAX_ATTEMPTS /\ OnlyNoCandidateFailures)
          ~> (pc = "Invoking" /\ calls = attempts)
    /\ (pc = "RetryPending" /\ attempts >= MAX_ATTEMPTS) ~> (pc = "ExhaustedFailed")

\* three responses of the service without an array, then the throw
C17_Witness ==
    /\ pc = "ExhaustedFailed"
    /\ variant = "service"
    /\ outcome = "text"
    /\ failures = <<"No JSON array found", "No JSON array found", "No JSON array found">>
    /\ calls = MAX_ATTEMPTS_SERVICE

\* C18 as stated: a clip one second shorter than minDurationSeconds or one
\* second longer than maxDurationSeconds is in no result (clips of exactly
\* minDurationSeconds and maxDurationSeconds are).
C18_BoundaryDurations ==
    pc = "Succeeded" =>
        \A i \in 1..Len(result) :
            ~HasInvalidTimes(result[i]) =>
                /\ endOffsetSeconds(result[i]) - startOffsetSeconds(result[i])
                      # minDurationSeconds - 1
                /\ endOffsetSeconds(result[i]) - startOffsetSeconds(result[i])
                      # maxDurationSeconds + 1

\* t.split(':').map(p => p.padStart(2, '0')).join(':'): t with every field
\* zero-padded to two digits
RECURSIVE JoinColon(_)
JoinColon(fields) ==
    IF Len(fields) = 1 THEN PadStart2(fields[1])
    ELSE PadStart2(fields[1]) \o <<":">> \o JoinColon(Tail(fields))

CanonicalPadding(t) == JoinColon(SplitColon(t))

\* a time string as secondsToTime writes it: minutes and seconds below 60,
\* and an hours field only when it is not zero
InCanonicalRange(t) ==
    LET parts == [i \in 1..Len(SplitColon(t)) |-> NumberOf(SplitColon(t)[i])]
    IN  IF Len(parts) = 2 THEN parts[1] < 60 /\ parts[2] < 60
        ELSE parts[1] > 0 /\ parts[2] < 60 /\ parts[3] < 60

\* C15 as stated: for every time string t of form MM:SS or HH:MM:SS,
\* secondsToTime(timeToSeconds(t)) is t with its fields zero-padded.
C15_RoundTrip ==
    conv.phase = "formatted" => conv.back = Str(CanonicalPadding(conv.t.s))

\* C15 as amended: the round trip returns a string of the same number of
\* seconds as t, and it returns t with its fields zero-padded exactly when
\* the minutes and seconds of t are below 60 and t has no hours field or a
\* non-zero one.
C15_RoundTripInRange ==
    conv.phase = "formatted" =>
        /\ ~isNaN(conv.seconds)
        /\ timeToSeconds(conv.back) = conv.seconds
        /\ conv.back = Str(CanonicalPadding(conv.t.s)) <=> InCanonicalRange(conv.t.s)

\* "1:5", written without padding, comes back as "01:05"
C15_Witness ==
    /\ conv.phase = "formatted"
    /\ conv.t = Str(<<"1", ":", "5">>)
    /\ conv.seconds = 65
    /\ conv.back = Str(<<"0", "1", ":", "0", "5">>)

\* the clips a user has stored
StoredBefore(item) == IF item.kind = "array" THEN item.clips ELSE <<>>

\* C19: a call of saveClips with an email either leaves the item as it is
\* (the storage has no room) or writes the stored clips in their order
\* followed by the new clips, in their order, whose videoId-startTime key
\* no stored clip has; a second call with the same new clips would change
\* nothing; a call with an empty email writes nothing.
C19_SaveAppendsUniqueOnce ==
    /\ [][store'.op = "saveClips" /\ store'.email # <<>> =>
            LET before == StoredBefore(store.item)
                keys == {ClipKey(before[i]) : i \in 1..Len(before)}
                fresh == SelectSeq(store'.newClips, LAMBDA c : ClipKey(c) \notin keys)
            IN  \/ store'.item = store.item /\ Len(before) + Len(fresh) > MaxStored
                \/ /\ store'.item.kind = "array"
                   /\ SubSeq(store'.item.clips, 1, Len(before)) = before
                   /\ SubSeq(store'.item.clips, Len(before) + 1, Len(store'.item.clips))
                         = fresh]_store
    /\ [](store.op = "saveClips" =>
            saveClips(store.item, store.newClips, store.email) = store.item)
    /\ [][store'.op = "saveClips" /\ store'.email = <<>> => store'.item = store.item]_store

\* the user has stored a clip; a call with another clip of the same key and
\* a clip of a new key has appended the second only
C19_Witness ==
    /\ store.op = "saveClips"
    /\ store.email = <<"u">>
    /\ store.newClips = <<StoredClip(<<"a">>, T0100, <<"B">>), StoredClip(<<"a">>, T0200, <<"A">>)>>
    /\ store.item = Stored(<<StoredClip(<<"a">>, T0100, <<"A">>),
                             StoredClip(<<"a">>, T0200, <<"A">>)>>)

\* the extractor has returned or thrown
ScanDone == scan.phase \in {"returned", "thrown"}

\* the array of clips the answer holds, parsed as it was written
RealArray == JSONparse(scan.arrayText)

\* the records of a parsed array under their canonical names
RecordsOf(parsed) == [k \in 1..Len(parsed.objs) |-> NormalizeService(parsed.objs[k])]

\* C13: when a shorter decoy array precedes the real, complete array of
\* clips, the candidates are tried longest first and the records returned
\* are those of the real array, also when its objects hold arrays of tags.
C13_DecoyBeforeRealArray ==
    /\ scan.phase = "candidate" =>
          \A k \in 1..(Len(scan.sortedArrays) - 1) :
              scan.sortedArrays[k].len >= scan.sortedArrays[k + 1].len
    /\ (ScanDone /\ scan.wrapper \in DecoyWrappers /\ RealArray.ok /\ FirstClipOk(RealArray)) =>
          scan.result = Returned(RecordsOf(RealArray))

\* C14: for an answer that is one valid array of clips, bare or in a
\* markdown fence, the extractor returns as many records as the array has
\* objects, with the title, description, tags, start and end written in it.
C14_WellFormedKeepsFields ==
    (ScanDone /\ scan.wrapper \in {"bare", "fenced"} /\ RealArray.ok /\ FirstClipOk(RealArray)) =>
        /\ scan.result.ok
        /\ Len(scan.result.clips) = Len(RealArray.objs)
        /\ scan.result.clips = RecordsOf(RealArray)

\* the cleaning sequence has run on the candidate at hand
Cleaned == scan.phase = "candidate" /\ scan.replaces = Len(CleaningSequence)

\* C16: for a candidate span that parses as it is, the parse of the span
\* the cleaning sequence has left is the same array.
C16_RepairKeepsCleanParse ==
    (Cleaned /\ JSONparse(scan.sortedArrays[scan.i].text).ok) =>
        JSONparse(scan.cleaned) = JSONparse(scan.sortedArrays[scan.i].text)

\* C20: a replace of the cleaning sequence is applied to a text only after
\* the parse of that text has failed: the candidate is parsed as it is
\* before the first replace, and a text that parses is not repaired further.
C20_RepairOnlyAfterFailedParse ==
    [][(scan.phase = "candidate" /\ scan'.phase = "candidate"
           /\ scan'.replaces = scan.replaces + 1)
          => ~JSONparse(scan.cleaned).ok]_scan

\* C21: a candidate that does not parse after the cleaning sequence, or
\* parses to no array of clips, only ends its own turn: the extractor goes
\* on with the next candidate, which is no longer, and it throws only when
\* the last candidate has had its turn.
C21_FailedSpanIsNotFatal ==
    [][(Cleaned /\ scan' # scan) =>
          LET parsed == JSONparse(scan.cleaned)
          IN  IF parsed.ok /\ FirstClipOk(parsed) THEN scan'.phase = "returned"
              ELSE IF scan.i < Len(scan.sortedArrays)
              THEN /\ scan'.phase = "candidate"
                   /\ scan'.i = scan.i + 1
                   /\ scan'.replaces = 0
                   /\ scan'.cleaned = scan.sortedArrays[scan.i + 1].text
                   /\ scan.sortedArrays[scan.i + 1].len <= scan.sortedArrays[scan.i].len
              ELSE /\ scan'.phase = "thrown"
                   /\ scan'.result = Thrown("No valid clip array found in response")]_scan

\* the longest candidate has failed and the clips of the next one are returned
C21_Witness ==
    /\ scan.phase = "returned"
    /\ scan.i = 2
    /\ scan.wrapper = "after a failed attempt"
    /\ scan.result = Returned(<<NormalizeService(DraftGood)>>)

\* a record that passes the validation checks: a title, times that are
\* times, an end behind the start, a duration within the bounds
ValidRecord(clip) ==
    /\ Truthy(clip.title)
    /\ ~timeToSecondsThrows(clip.startTime) /\ ~timeToSecondsThrows(clip.endTime)
    /\ ~isNaN(startOffsetSeconds(clip)) /\ ~isNaN(endOffsetSeconds(clip))
    /\ endOffsetSeconds(clip) > startOffsetSeconds(clip)
    /\ endOffsetSeconds(clip) - startOffsetSeconds(clip) >= minDurationSeconds
    /\ endOffsetSeconds(clip) - startOffsetSeconds(clip) <= maxDurationSeconds

\* the records of the one well-formed array of a response, as the variant's
\* extractor names them
RecordsIn(r) ==
    [k \in 1..Len(r.arrays[1].objs) |->
        IF variant = "service" THEN NormalizeService(r.arrays[1].objs[k])
        ELSE NormalizeLambda(r.arrays[1].objs[k])]

\* a clip without the transcript that alignment has attached
WithoutTranscript(clip) ==
    [title |-> clip.title, description |-> clip.description, tags |-> clip.tags,
     startTime |-> clip.startTime, endTime |-> clip.endTime]

\* C22: of the records of a well-formed array the extractor drops those
\* that fail a validation check and keeps the others, wherever in the array
\* the failing records stand; the attempt fails only when none is left.
C22_InvalidRecordsDropped ==
    [][(/\ pc = "Extracting"
        /\ extractorRan'
        /\ Len(response.arrays) = 1
        /\ response.arrays[1].syntax = "valid"
        /\ response.arrays[1].kind = "objects") =>
          LET survivors == SelectSeq(RecordsIn(response), ValidRecord)
          IN  IF survivors = <<>> THEN pc' # "Succeeded"
              ELSE /\ pc' = "Succeeded"
                   /\ [k \in 1..Len(result') |-> WithoutTranscript(result'[k])] = survivors]_vars

\* C23: when more records of a well-formed array pass validation than the
\* plan's clip limit allows, the clips returned are the first maxClipCount
\* of them, in the order of the array.
C23_StableTruncation ==
    [][(/\ pc = "Extracting"
        /\ pc' = "Succeeded"
        /\ Len(response.arrays) = 1
        /\ response.arrays[1].syntax = "valid"
        /\ response.arrays[1].kind = "objects"
        /\ Len(SelectSeq(RecordsIn(response), ValidRecord)) > maxClipCount(plan)) =>
          [k \in 1..Len(result') |-> WithoutTranscript(result'[k])]
             = SubSeq(SelectSeq(RecordsIn(response), ValidRecord), 1, maxClipCount(plan))]_vars

\* a text of two or three runs of digits with colons between them
ColonDelimited(v) ==
    /\ v.t = "str"
    /\ Len(SplitColon(v.s)) \in {2, 3}
    /\ \A k \in 1..Len(SplitColon(v.s)) :
          /\ SplitColon(v.s)[k] # <<>>
          /\ \A j \in 1..Len(SplitColon(v.s)[k]) : IsDigit(SplitColon(v.s)[k][j])

\* M*60 + S, or H*3600 + M*60 + S, of a colon-delimited text
SecondsOf(v) ==
    LET f == SplitColon(v.s)
    IN  IF Len(f) = 2 THEN DecimalValue(f[1]) * 60 + DecimalValue(f[2])
        ELSE DecimalValue(f[1]) * 3600 + DecimalValue(f[2]) * 60 + DecimalValue(f[3])

C25_TranscriptOfOwnIntervalOnly ==
    pc = "Succeeded" =>
        /\ \A i \in 1..Len(result) :
              LET clip == result[i]
                  whole == MatchedText(transcriptSegments,
                               {k \in 1..Len(transcriptSegments) :
                                   /\ transcriptSegments[k].start < endOffsetSeconds(clip)
                                   /\ transcriptSegments[k].start
                                        + transcriptSegments[k].duration
                                          > startOffsetSeconds(clip)})
              IN  ~HasInvalidTimes(clip) /\ clip.transcript # NotFound =>
                      /\ clip.transcript = whole
                      /\ clip.transcript[1] # " "
                      /\ clip.transcript[Len(clip.transcript)] # " "
        /\ \A i, j \in 1..Len(result) :
              /\ result[i].startTime = result[j].startTime
              /\ result[i].endTime = result[j].endTime
              => result[i].transcript = result[j].transcript

\* a success of two clips whose intervals overlap: the second clip's
\* transcript starts with the segment the first clip matched and joins
\* it to the next with one space
C25_Witness ==
    /\ pc = "Succeeded"
    /\ Len(result) = 2
    /\ result[1].transcript = <<"q">>
    /\ startOffsetSeconds(result[2]) = startOffsetSeconds(result[1])
    /\ endOffsetSeconds(result[2]) > endOffsetSeconds(result[1])
    /\ result[2].transcript = <<"q", " ", "r">>

OverLimit ==
    /\ app.user.loggedIn
    /\ app.requests > 0
    /\ ~app.user.admin
    /\ \/ app.found.videosProcessed >= PLAN_LIMITS[app.user.plan].videos
       \/ app.videoMinutes > PLAN_LIMITS[app.user.plan].videoDuration

\* C27: a request of a logged-in user who is not the admin and is over
\* the video count limit or the video duration limit of the plan never
\* calls generateClipsFromTranscript, and when it is over an error is set
\* and isLoading is false.
C27_LimitsGateGeneration ==
    app.phase = "run" /\ OverLimit =>
        /\ app.calls = 0
        /\ app.pc # "Generating"
        /\ app.pc = "Idle" => app.error # "null" /\ ~app.isLoading

\* a request refused for the length of its video, of a user with videos
\* left this month
C27_Witness ==
    /\ app.phase = "run"
    /\ app.pc = "Idle"
    /\ app.ended = "limit"
    /\ app.found.videosProcessed < PLAN_LIMITS[app.user.plan].videos
    /\ app.videoMinutes = PLAN_LIMITS[app.user.plan].videoDuration + 1
    /\ app.error = "duration limit"
    /\ app.calls = 0

\* C28: a request calls recordUsage at most once, and only in the step in
\* which generateClipsFromTranscript returns: that step adds one video and
\* the minutes of the video to the user's usage; no other step changes the
\* usage, so a request that ends with a transcript failure, a refusal or
\* a failed generation leaves videosProcessed and minutesProcessed as it
\* found them.
C28_UsageOnlyAfterSuccess ==
    [][/\ app'.records <= 1
       /\ app'.records = 1 => app'.ended = "done" /\ app'.calls = 1
       /\ app'.user.usage # app.user.usage =>
             /\ app.pc = "Generating"
             /\ app'.ended = "done"
             /\ app'.user.usage.videosProcessed = app.user.usage.videosProcessed + 1
             /\ app'.user.usage.minutesProcessed
                  = app.user.usage.minutesProcessed + app.videoMinutes
       /\ app'.ended \in {"transcript failed", "limit", "generation failed"} =>
             app'.user.usage = app'.found
      ]_<<vars, libs>>

\* the second request of a session failed in generation after the first
\* was recorded: the usage is that of the first alone
C28_Witness ==
    /\ app.phase = "run"
    /\ app.requests = 2
    /\ app.ended = "generation failed"
    /\ app.records = 0
    /\ app.calls = 1
    /\ app.user.usage.videosProcessed = 1
    /\ app.user.usage.minutesProcessed = 2

\* C29: once the upserts of the recordUsage calls of a signed-in user who
\* is not the admin have all succeeded, the row of user_usage holds the
\* counters of the user in memory: the initial ones plus one video for
\* each call and the minutes of all calls.
C29_PersistedEqualsInMemory ==
    /\ db.phase = "run"
    /\ db.supabaseUser
    /\ ~db.admin
    /\ db.calls >= 1
    /\ db.pending = <<>>
    => /\ db.usage = Usage(db.initial.videosProcessed + db.calls,
                           db.initial.minutesProcessed + db.minutes)
       /\ db.row = db.usage

\* C30: a whole number of seconds n >= 0 that secondsToTime has written
\* as a string is the number timeToSeconds reads from that string.
C30_SecondsRecovered ==
    conv.phase = "aligned" =>
        /\ conv.back.t = "str"
        /\ conv.recovered = conv.seconds

\* 3661 s is written 01:01:01 and read back as 3661 s
C30_Witness ==
    /\ conv.phase = "aligned"
    /\ conv.seconds = 3661
    /\ conv.back = Str(<<"0", "1", ":", "0", "1", ":", "0", "1">>)
    /\ conv.recovered = 3661
====
